---- MODULE Spec2Model ----
(***************************************************************************)
(* Verification model of the traderjim credit-spread trading engine.       *)
(*                                                                         *)
(* Part 1  the graduated circuit breaker (core/risk/circuit_breaker.py)    *)
(*         over the key-value store (core/db/kv.py).                       *)
(* Part 2  the trade lifecycle: the scan and webhook tasks, order          *)
(*         reconciliation and auto-exit (handlers/*.py, core/db/d1.py).    *)
(* Part 3  the order-fill monitor (core/broker/alpaca.py).                 *)
(* Part 4  the exit rules and the position sizer (core/risk/validators.py, *)
(*         core/risk/position_sizer.py).                                   *)
(*                                                                         *)
(* Money is in whole dollars, time in whole seconds, size multipliers and  *)
(* fractions in percent, loss thresholds in basis points (1/10000).        *)
(***************************************************************************)
EXTENDS Integers, Sequences, FiniteSets, TLC

VARIABLES
    now,        \* wall clock, seconds (datetime.now())
    cbKey,      \* KV entry "circuit_breaker"
    dailyKey,   \* KV entry "daily:<today>"
    errKey,     \* KV entry "rate_limit:errors"
    errLog,     \* history: the times of the recent check_api_errors calls
    ret,        \* the last operation of parts 1 and 4 and what it returned
    recs,       \* recommendations table: status per recommendation id
    trades,     \* trades table: one row per trade id
    orders,     \* the broker's orders: one record per order id
    positions,  \* positions table: the trade ids that have a snapshot
    task,       \* one record per running task (scan, webhook)
    mon,        \* one record per position-monitor run
    hist,       \* per trade: what the broker has reported to the program
    fill        \* the state of one monitor_order_fill call

riskVars  == <<now, cbKey, dailyKey, errKey, errLog, ret>>
tradeVars == <<recs, trades, orders, positions, task, mon, hist>>
vars      == <<now, cbKey, dailyKey, errKey, errLog, ret,
               recs, trades, orders, positions, task, mon, hist, fill>>

(***************************************************************************)
(* Bounds of the model.                                                    *)
(***************************************************************************)
MaxNow       == 1    \* the clock of the risk specification stops here
MaxLossCount == 1    \* losing updates of the daily stats per run
MaxErrCount  == 5    \* recorded API errors per run
MaxTradeCount == 1   \* counted trades per run
LossStep     == 10   \* dollars lost by one losing update

(* Python's None for a string, for a timestamp.                            *)
NoStr  == "<none>"
NoTime == -1

Max2(a, b) == IF a >= b THEN a ELSE b
Min2(a, b) == IF a <= b THEN a ELSE b

(***************************************************************************)
(* Part 1.  GraduatedConfig: the thresholds.                               *)
(***************************************************************************)
daily_alert_bp       == 100
daily_reduce_bp      == 150
daily_halt_bp        == 200
weekly_caution_bp    == 300
weekly_halt_bp       == 500
drawdown_caution_bp  == 1000
drawdown_halt_bp     == 1500
stale_data_seconds   == 10
max_api_errors_per_minute == 5
rapid_loss_threshold_bp   == 100
rapid_loss_window_seconds == 300
vix_elevated == 20
vix_caution  == 30
vix_high     == 40
vix_halt     == 50
error_window_seconds == 60

(* CircuitBreakerReason.                                                   *)
DAILY_ALERT      == "Daily loss alert (1%)"
DAILY_REDUCE     == "Daily loss elevated (1.5%) - reducing position size"
DAILY_HALT       == "Daily loss limit exceeded (2%) - halting new trades"
WEEKLY_CAUTION   == "Weekly loss caution (3%) - reducing exposure"
WEEKLY_HALT      == "Weekly loss limit exceeded (5%) - halting and reducing positions"
DRAWDOWN_CAUTION == "Drawdown elevated (10%) - minimum sizing"
DRAWDOWN_HALT    == "Maximum drawdown reached (15%) - full halt"
STALE_DATA       == "Stale market data detected"
API_ERRORS       == "Excessive API errors"
RAPID_LOSS       == "Rapid loss detected (1% in <5 min)"
VIX_ELEVATED     == "VIX elevated (>20)"
VIX_CAUTION      == "VIX high (>30) - reducing size"
VIX_HIGH         == "VIX very high (>40) - significant reduction"
VIX_HALT         == "Extreme volatility (VIX > 50) - halting"
MANUAL           == "Manually triggered"

(* Python truthiness of an optional string.                                *)
Truthy(s) == s # NoStr /\ s # ""

(* RiskState(level, size_multiplier, reason, should_alert,                 *)
(*           should_close_positions, close_position_pct).                  *)
RiskState(level, mult, reason, alert, close, pct) ==
    [level |-> level, size_multiplier |-> mult, reason |-> reason,
     should_alert |-> alert, should_close_positions |-> close,
     close_position_pct |-> pct]

RiskStateNormal == RiskState("normal", 100, NoStr, FALSE, FALSE, 0)

RiskStateHalted(reason, close_pct) ==
    RiskState("halted", 0, reason, TRUE, close_pct > 0, close_pct)

(* Mutant: the thresholds are exclusive.                                   *)
LossAbove(starting, current, bp) ==
    IF starting <= 0 THEN 0 > bp
    ELSE Max2(0, starting - current) * 10000 > bp * starting

(* _calculate_loss_pct(starting, current) >= bp/10000, in integers.        *)
LossAtLeast(starting, current, bp) ==
    IF starting <= 0 THEN 0 >= bp
    ELSE Max2(0, starting - current) * 10000 >= bp * starting

evaluate_daily_risk(starting_equity, current_equity) ==
    IF LossAtLeast(starting_equity, current_equity, daily_halt_bp)
    THEN RiskState("halted", 0, DAILY_HALT, TRUE, FALSE, 0)
    ELSE IF LossAtLeast(starting_equity, current_equity, daily_reduce_bp)
    THEN RiskState("caution", 50, DAILY_REDUCE, TRUE, FALSE, 0)
    ELSE IF LossAtLeast(starting_equity, current_equity, daily_alert_bp)
    THEN RiskState("elevated", 100, DAILY_ALERT, TRUE, FALSE, 0)
    ELSE RiskStateNormal

evaluate_weekly_risk(starting_equity, current_equity) ==
    IF LossAtLeast(starting_equity, current_equity, weekly_halt_bp)
    THEN RiskState("halted", 0, WEEKLY_HALT, TRUE, TRUE, 50)
    ELSE IF LossAtLeast(starting_equity, current_equity, weekly_caution_bp)
    THEN RiskState("high", 50, WEEKLY_CAUTION, TRUE, FALSE, 0)
    ELSE RiskStateNormal

evaluate_drawdown_risk(peak_equity, current_equity) ==
    IF LossAtLeast(peak_equity, current_equity, drawdown_halt_bp)
    THEN RiskStateHalted(DRAWDOWN_HALT, 100)
    ELSE IF LossAtLeast(peak_equity, current_equity, drawdown_caution_bp)
    THEN RiskState("critical", 25, DRAWDOWN_CAUTION, TRUE, FALSE, 0)
    ELSE RiskStateNormal

evaluate_vix_risk(current_vix) ==
    IF current_vix >= vix_halt
    THEN RiskState("halted", 0, VIX_HALT, TRUE, FALSE, 0)
    ELSE IF current_vix >= vix_high
    THEN RiskState("high", 25, VIX_HIGH, TRUE, FALSE, 0)
    ELSE IF current_vix >= vix_caution
    THEN RiskState("caution", 50, VIX_CAUTION, TRUE, FALSE, 0)
    ELSE IF current_vix >= vix_elevated
    THEN RiskState("elevated", 80, VIX_ELEVATED, FALSE, FALSE, 0)
    ELSE RiskStateNormal

(***************************************************************************)
(* The key-value store (KVClient).  A key is absent or holds a JSON        *)
(* object; a key put with a TTL is gone once the TTL has passed.           *)
(***************************************************************************)
AbsentCb == [present |-> FALSE, halted |-> FALSE, reason |-> NoStr,
             triggered_at |-> NoTime]

(* get_circuit_breaker: the CircuitBreakerStatus read from the key.        *)
get_circuit_breaker(key) ==
    IF ~key.present
    THEN [halted |-> FALSE, reason |-> NoStr, triggered_at |-> NoTime]
    ELSE [halted |-> key.halted, reason |-> key.reason,
          triggered_at |-> key.triggered_at]

(* trip_circuit_breaker(reason): the JSON object it puts.                  *)
trip_circuit_breaker(reason, t) ==
    [present |-> TRUE, halted |-> TRUE, reason |-> reason, triggered_at |-> t]

(* Mutant: reset clears the reason and timestamp but not the flag.         *)
reset_keeps_flag ==
    [present |-> TRUE, halted |-> TRUE, reason |-> NoStr,
     triggered_at |-> NoTime]

(* reset_circuit_breaker(): the JSON object it puts, {"halted": False}.    *)
reset_circuit_breaker ==
    [present |-> TRUE, halted |-> FALSE, reason |-> NoStr,
     triggered_at |-> NoTime]

DefaultDailyStats ==
    [trades_count |-> 0, realized_pnl |-> 0, losses_today |-> 0,
     last_loss_time |-> NoTime, rapid_loss_amount |-> 0]

AbsentDaily == [present |-> FALSE, stats |-> DefaultDailyStats]

(* get_daily_stats: the stored stats, or the defaults.                     *)
get_daily_stats(key) == IF key.present THEN key.stats ELSE DefaultDailyStats

(* Mutant: a loss exactly 5 minutes after the last one still adds up.      *)
updated_daily_stats_inclusive(stats, trades_delta, pnl_delta, t) ==
    LET s1 == [stats EXCEPT !.trades_count = @ + trades_delta,
                            !.realized_pnl = @ + pnl_delta]
    IN  IF pnl_delta < 0
        THEN [s1 EXCEPT
                !.losses_today = @ + (0 - pnl_delta),
                !.rapid_loss_amount =
                    IF stats.last_loss_time # NoTime
                       /\ t - stats.last_loss_time <= rapid_loss_window_seconds
                    THEN @ + (0 - pnl_delta)
                    ELSE 0 - pnl_delta,
                !.last_loss_time = t]
        ELSE s1

(* update_daily_stats(trades_delta, pnl_delta): the stats it writes back.  *)
updated_daily_stats(stats, trades_delta, pnl_delta, t) ==
    LET s1 == [stats EXCEPT !.trades_count = @ + trades_delta,
                            !.realized_pnl = @ + pnl_delta]
    IN  IF pnl_delta < 0
        THEN [s1 EXCEPT
                !.losses_today = @ + (0 - pnl_delta),
                !.rapid_loss_amount =
                    IF stats.last_loss_time # NoTime
                       /\ t - stats.last_loss_time < rapid_loss_window_seconds
                    THEN @ + (0 - pnl_delta)
                    ELSE 0 - pnl_delta,
                !.last_loss_time = t]
        ELSE s1

AbsentErr == [present |-> FALSE, count |-> 0, window_start |-> NoTime,
              expires |-> NoTime]

(* The errors key as a reader sees it at time t.                           *)
LiveErr(key, t) == IF key.present /\ t < key.expires THEN key ELSE AbsentErr

(* increment_error_count(window_seconds): the key it writes.               *)
incremented_error_key(key, t, window_seconds) ==
    LET data == LiveErr(key, t)
    IN  IF ~data.present \/ t - data.window_start > window_seconds
        THEN [present |-> TRUE, count |-> 1, window_start |-> t,
              expires |-> t + window_seconds]
        ELSE [present |-> TRUE, count |-> data.count + 1,
              window_start |-> data.window_start,
              expires |-> t + Max2(window_seconds - (t - data.window_start), 1)]

(* evaluate_rapid_loss(account_equity), given the daily stats.             *)
evaluate_rapid_loss(stats, account_equity) ==
    IF account_equity <= 0 THEN RiskStateNormal
    ELSE IF stats.rapid_loss_amount * 10000
              >= rapid_loss_threshold_bp * account_equity
    THEN RiskState("halted", 0, RAPID_LOSS, TRUE, FALSE, 0)
    ELSE RiskStateNormal

(* check_api_errors, given the count increment_error_count returned.       *)
api_errors_state(error_count) ==
    IF error_count >= max_api_errors_per_minute
    THEN RiskStateHalted(API_ERRORS, 0)
    ELSE RiskStateNormal

(* check_data_staleness(last_quote_time, current_time).                    *)
check_data_staleness(last_quote_time, current_time) ==
    IF current_time - last_quote_time > stale_data_seconds
    THEN RiskStateHalted(STALE_DATA, 0)
    ELSE RiskStateNormal

(***************************************************************************)
(* evaluate_all.                                                           *)
(***************************************************************************)
NoVix == 0 - 1

(* Mutant: the early return always reports a manual halt.                  *)
halted_short_circuit_manual(status) == RiskStateHalted(MANUAL, 0)

(* The early return when the persisted flag is already set.                *)
halted_short_circuit(status) ==
    RiskStateHalted(IF Truthy(status.reason) THEN status.reason ELSE MANUAL, 0)

(* The states evaluate_all collects, in the order it appends them.         *)
(* sd, sw, pk, cur: starting daily, starting weekly, peak and current      *)
(* equity; vix: current_vix; lq: last_quote_time; t: the time of the call. *)
collect_states(stats, sd, sw, pk, cur, vix, lq, t) ==
    << evaluate_drawdown_risk(pk, cur),
       evaluate_daily_risk(sd, cur),
       evaluate_weekly_risk(sw, cur),
       evaluate_rapid_loss(stats, cur) >>
    \o (IF vix # NoVix THEN << evaluate_vix_risk(vix) >> ELSE << >>)
    \o (IF lq # NoTime THEN << check_data_staleness(lq, t) >> ELSE << >>)

(* Mutant: the loop without its tie-break on should_alert.                 *)
more_restrictive_no_tiebreak(state, worst_state) ==
    IF state.size_multiplier < worst_state.size_multiplier THEN state
    ELSE worst_state

(* One iteration of the loop that keeps the most restrictive state.        *)
more_restrictive(state, worst_state) ==
    IF state.size_multiplier < worst_state.size_multiplier THEN state
    ELSE IF state.size_multiplier = worst_state.size_multiplier
            /\ state.should_alert /\ ~worst_state.should_alert THEN state
    ELSE worst_state

RECURSIVE worst_of(_, _)
worst_of(states, worst_state) ==
    IF states = << >> THEN worst_state
    ELSE worst_of(Tail(states), more_restrictive(Head(states), worst_state))

(* Mutant: evaluate_all persists only the halts that close positions.      *)
should_trip_only_closing(worst_state) ==
    worst_state.level = "halted" /\ worst_state.should_close_positions

(* Whether evaluate_all trips the breaker for the state it selected.       *)
should_trip(worst_state) ==
    worst_state.level = "halted" /\ Truthy(worst_state.reason)

Ret(op, state, ran) == [op |-> op, state |-> state, ran |-> ran]

(* evaluate_all as a function of the store and its arguments: the state it *)
(* returns, the evaluator states it collected, and the circuit_breaker key *)
(* it leaves.                                                              *)
evaluate_all(cb, stats, sd, sw, pk, cur, vix, lq, t) ==
    LET status == get_circuit_breaker(cb)
        states == collect_states(stats, sd, sw, pk, cur, vix, lq, t)
        worst  == worst_of(states, RiskStateNormal)
    IN  IF status.halted
        THEN [state |-> halted_short_circuit(status), ran |-> << >>, cb |-> cb]
        ELSE [state |-> worst, ran |-> states,
              cb |-> IF should_trip(worst)
                     THEN trip_circuit_breaker(worst.reason, t) ELSE cb]

EvaluateAll(sd, sw, pk, cur, vix, lq) ==
    LET r == evaluate_all(cbKey, get_daily_stats(dailyKey),
                          sd, sw, pk, cur, vix, lq, now)
    IN  /\ ret' = Ret("evaluate_all", r.state, r.ran)
        /\ cbKey' = r.cb
        /\ UNCHANGED <<now, dailyKey, errKey, errLog, tradeVars, fill>>

(* trip(reason) and reset(), the manual overrides.                         *)
Trip(reason) ==
    /\ cbKey' = trip_circuit_breaker(reason, now)
    /\ ret' = Ret("trip", RiskStateNormal, << >>)
    /\ UNCHANGED <<now, dailyKey, errKey, errLog, tradeVars, fill>>

Reset ==
    /\ cbKey' = reset_circuit_breaker
    /\ ret' = Ret("reset", RiskStateNormal, << >>)
    /\ UNCHANGED <<now, dailyKey, errKey, errLog, tradeVars, fill>>

(* The evaluators called on their own: they return a state, write nothing. *)
EvaluateDaily(sd, cur) ==
    /\ ret' = Ret("evaluate_daily_risk", evaluate_daily_risk(sd, cur), << >>)
    /\ UNCHANGED <<now, cbKey, dailyKey, errKey, errLog, tradeVars, fill>>

EvaluateWeekly(sw, cur) ==
    /\ ret' = Ret("evaluate_weekly_risk", evaluate_weekly_risk(sw, cur), << >>)
    /\ UNCHANGED <<now, cbKey, dailyKey, errKey, errLog, tradeVars, fill>>

EvaluateDrawdown(pk, cur) ==
    /\ ret' = Ret("evaluate_drawdown_risk", evaluate_drawdown_risk(pk, cur), << >>)
    /\ UNCHANGED <<now, cbKey, dailyKey, errKey, errLog, tradeVars, fill>>

EvaluateVix(vix) ==
    /\ ret' = Ret("evaluate_vix_risk", evaluate_vix_risk(vix), << >>)
    /\ UNCHANGED <<now, cbKey, dailyKey, errKey, errLog, tradeVars, fill>>

EvaluateRapidLoss(cur) ==
    /\ ret' = Ret("evaluate_rapid_loss",
                  evaluate_rapid_loss(get_daily_stats(dailyKey), cur), << >>)
    /\ UNCHANGED <<now, cbKey, dailyKey, errKey, errLog, tradeVars, fill>>

CheckDataStaleness(lq) ==
    /\ ret' = Ret("check_data_staleness", check_data_staleness(lq, now), << >>)
    /\ UNCHANGED <<now, cbKey, dailyKey, errKey, errLog, tradeVars, fill>>

(* The history of check_api_errors calls after one more at time t; calls   *)
(* older than the error window are dropped from it.                        *)
logged_error(log, t) ==
    Append(SelectSeq(log, LAMBDA at : t - at <= error_window_seconds), t)

(* check_api_errors: counts one more error, returns halted at the limit.   *)
CheckApiErrors(cap) ==
    /\ LiveErr(errKey, now).count < cap
    /\ errKey' = incremented_error_key(errKey, now, error_window_seconds)
    /\ errLog' = logged_error(errLog, now)
    /\ ret' = Ret("check_api_errors", api_errors_state(errKey'.count), << >>)
    /\ UNCHANGED <<now, cbKey, dailyKey, tradeVars, fill>>

(* update_daily_stats(trades_delta, pnl_delta).                            *)
UpdateDailyStats(trades_delta, pnl_delta, max_trades, max_losses) ==
    /\ get_daily_stats(dailyKey).trades_count + trades_delta <= max_trades
    /\ get_daily_stats(dailyKey).losses_today - Min2(pnl_delta, 0) <= max_losses
    /\ dailyKey' = [present |-> TRUE,
                    stats |-> updated_daily_stats(get_daily_stats(dailyKey),
                                                  trades_delta, pnl_delta, now)]
    /\ ret' = Ret("update_daily_stats", RiskStateNormal, << >>)
    /\ UNCHANGED <<now, cbKey, errKey, errLog, tradeVars, fill>>

(* Time passes.                                                            *)
Tick(d, max) ==
    /\ now + d <= max
    /\ now' = now + d
    /\ ret' = Ret("tick", RiskStateNormal, << >>)
    /\ UNCHANGED <<cbKey, dailyKey, errKey, errLog, tradeVars, fill>>

(***************************************************************************)
(* Inputs around each threshold.  A starting equity of 0 switches the      *)
(* evaluator that uses it off (_calculate_loss_pct returns 0).             *)
(***************************************************************************)
StartEquities == {0, 1000}
PeakEquities  == {0, 1000}
CurEquities   == {850, 900, 970, 980, 985, 990, 1000, 1010}
VixLevels     == {NoVix, 10, 20, 30, 40, 50}
QuoteAges     == {10, 11}
TripReasons   == {MANUAL, ""}

QuoteTimes == {NoTime} \cup {now - a : a \in QuoteAges}

(* No call of monitor_order_fill is running.                               *)
IdleFill == [pc |-> "idle", order |-> 0, timeout |-> 0, schedule |-> << >>,
             elapsed |-> 0, observed |-> "none", adjustments |-> 0,
             was_filled |-> FALSE, exit |-> "none", cancels |-> 0,
             replaces |-> 0]

InitRisk ==
    /\ now = 0
    /\ cbKey = AbsentCb
    /\ dailyKey = AbsentDaily
    /\ errKey = AbsentErr
    /\ errLog = << >>
    /\ ret = Ret("init", RiskStateNormal, << >>)
    /\ recs = << >> /\ trades = << >> /\ orders = << >> /\ positions = {}
    /\ task = << >> /\ mon = << >> /\ hist = << >>
    /\ fill = IdleFill

(***************************************************************************)
(* SpecEval: evaluate_all over the full input grid, between trips, resets, *)
(* losses and clock ticks.                                                 *)
(***************************************************************************)
NextEval ==
    \/ \E sd \in StartEquities, sw \in StartEquities, pk \in PeakEquities,
          cur \in CurEquities, vix \in VixLevels, lq \in QuoteTimes :
            EvaluateAll(sd, sw, pk, cur, vix, lq)
    \/ \E reason \in TripReasons : Trip(reason)
    \/ Reset
    \/ UpdateDailyStats(0, 0 - LossStep, 0, MaxLossCount * LossStep)
    \/ Tick(1, MaxNow)

SpecEval == InitRisk /\ [][NextEval]_vars

(***************************************************************************)
(* SpecRisk: every operation of part 1, evaluate_all on a small grid.      *)
(***************************************************************************)
NextRisk ==
    \/ \E cur \in {980, 1000}, vix \in {NoVix, 50}, lq \in {NoTime, now - 11} :
            EvaluateAll(1000, 1000, 1000, cur, vix, lq)
    \/ \E reason \in TripReasons : Trip(reason)
    \/ Reset
    \/ \E cur \in CurEquities : EvaluateDaily(1000, cur)
    \/ \E cur \in CurEquities : EvaluateWeekly(1000, cur)
    \/ \E cur \in CurEquities : EvaluateDrawdown(1000, cur)
    \/ \E vix \in VixLevels \ {NoVix} : EvaluateVix(vix)
    \/ \E cur \in CurEquities : EvaluateRapidLoss(cur)
    \/ \E lq \in QuoteTimes \ {NoTime} : CheckDataStaleness(lq)
    \/ CheckApiErrors(MaxErrCount)
    \/ UpdateDailyStats(0, 0 - LossStep, 0, MaxLossCount * LossStep)
    \/ UpdateDailyStats(1, 0, MaxTradeCount, MaxLossCount * LossStep)
    \/ Tick(1, MaxNow)

SpecRisk == InitRisk /\ [][NextRisk]_vars

(***************************************************************************)
(* Claims about the circuit breaker.                                       *)
(***************************************************************************)
MinMultiplier(states) ==
    CHOOSE m \in {states[i].size_multiplier : i \in 1..Len(states)} :
        \A i \in 1..Len(states) : m <= states[i].size_multiplier

(* evaluate_all ran its evaluators: the flag was not set when it started.  *)
Evaluated == ret.op = "evaluate_all" /\ ret.ran # << >>

(* C1: with the flag not set, evaluate_all returns a state whose           *)
(* size_multiplier is the minimum over the states of the evaluators it     *)
(* ran, and the returned state requests an alert if any state at that      *)
(* minimum does.                                                           *)
C1_MostRestrictive ==
    Evaluated =>
        /\ ret.state.size_multiplier = MinMultiplier(ret.ran)
        /\ (\E i \in 1..Len(ret.ran) :
                /\ ret.ran[i].size_multiplier = MinMultiplier(ret.ran)
                /\ ret.ran[i].should_alert)
           => ret.state.should_alert

(* All six evaluators ran, the first state at the minimum does not alert,  *)
(* a later one does.                                                       *)
C1_Witness ==
    /\ Evaluated /\ Len(ret.ran) = 6
    /\ ret.state.size_multiplier = 100
    /\ ~ret.ran[1].should_alert /\ ret.ran[2].should_alert

(* C2: with the flag not set, if some evaluator that ran returned halted,  *)
(* evaluate_all returns halted and the persisted status is halted with     *)
(* the returned reason and the time of the call.                           *)
C2_HaltPersisted ==
    (Evaluated /\ \E i \in 1..Len(ret.ran) : ret.ran[i].level = "halted") =>
        /\ ret.state.level = "halted"
        /\ get_circuit_breaker(cbKey).halted
        /\ get_circuit_breaker(cbKey).reason = ret.state.reason
        /\ get_circuit_breaker(cbKey).triggered_at = now
        /\ get_circuit_breaker(cbKey).triggered_at # NoTime

(* A halt that does not close positions (stale data), found after a reset  *)
(* at a later time.                                                        *)
C2_Witness ==
    /\ Evaluated /\ ret.state.reason = STALE_DATA
    /\ cbKey.halted /\ cbKey.triggered_at = MaxNow

C4_FlagOnlyTripReset ==
    [][/\ (get_circuit_breaker(cbKey).halted /\ ~get_circuit_breaker(cbKey').halted)
            => ret'.op = "reset"
       /\ (~get_circuit_breaker(cbKey).halted /\ get_circuit_breaker(cbKey').halted)
            => \/ ret'.op = "trip"
               \/ ret'.op = "evaluate_all" /\ ret'.state.level = "halted"
       /\ ret'.op = "reset" => ~get_circuit_breaker(cbKey').halted]_vars

(* check_api_errors returned halted and the flag is still clear after a    *)
(* reset.                                                                  *)
C4_Witness ==
    /\ ret.op = "check_api_errors" /\ ret.state.level = "halted"
    /\ cbKey.present /\ ~cbKey.halted

(***************************************************************************)
(* Part 2.  The trade lifecycle.                                           *)
(*                                                                         *)
(* Three tables (recommendations, trades, positions), the broker's orders, *)
(* the scheduled scans, the approve webhook and the position monitor.      *)
(* Table ids are uuid4 strings in the code; here a new row takes the       *)
(* lowest id not yet in use.                                               *)
(***************************************************************************)
MaxRecs     == 2    \* recommendations ever created
MaxTrades   == 2    \* trade rows ever created
MaxOrders   == 3    \* orders ever submitted to the broker
NumMonitors == 2    \* position-monitor runs that may overlap

RecIds   == 1..MaxRecs
TradeIds == 1..MaxTrades
OrderIds == 1..MaxOrders
MonIds   == 1..NumMonitors
NoId     == 0       \* Python's None for an id

(* core/broker/types.py, OrderStatus: the values the broker reports.       *)
OrderStatusValues ==
    {"new", "pending_new", "accepted", "filled", "partially_filled",
     "canceled", "rejected", "expired"}

(* The statuses after which the broker changes an order no more.           *)
OrderFinal == {"filled", "canceled", "rejected", "expired"}

NoRec   == [status |-> "none"]
NoTrade == [status |-> "none", broker_order_id |-> NoId,
            recommendation_id |-> NoId]
NoOrder == [status |-> "none", side |-> "none"]
NoHist  == [close_order |-> NoId, fills_applied |-> 0, alerted |-> FALSE,
            closing_orders |-> 0]

(* One run of the position monitor.  messaged is the set of trades the run *)
(* has called discord.send_message about while reconciling.  listed, seen  *)
(* and queried keep, until                                                 *)
(* the run leaves the reconciliation, which trades it listed as pending,   *)
(* what the broker answered for each and which orders it asked about.      *)
Unseen == [t \in TradeIds |-> "unseen"]

IdleMon == [pc |-> "idle", pending |-> << >>, open |-> << >>,
            listed |-> {}, seen |-> Unseen, queried |-> {}, all_ok |-> TRUE,
            messaged |-> {}]

(* The id a new row gets; only used where some id is free.                 *)
HasFree(tbl) == \E i \in DOMAIN tbl : tbl[i].status = "none"
FreshId(tbl) ==
    CHOOSE i \in DOMAIN tbl :
        /\ tbl[i].status = "none"
        /\ \A j \in DOMAIN tbl : tbl[j].status = "none" => i <= j

(* D1Client.create_recommendation: the row starts with the column default  *)
(* 'pending'.                                                              *)
create_recommendation(tbl) ==
    [tbl EXCEPT ![FreshId(tbl)] = [status |-> "pending"]]

(* D1Client.update_recommendation_status: unconditional UPDATE.            *)
update_recommendation_status(tbl, rec_id, status) ==
    [tbl EXCEPT ![rec_id].status = status]

(* D1Client.get_pending_recommendations.                                   *)
get_pending_recommendations(tbl) ==
    {r \in DOMAIN tbl : tbl[r].status = "pending"}

(* TradeValidator.validate_recommendation: the status must be pending, the *)
(* recommendation not expired and far enough from its option expiry; the   *)
(* last two are given by fresh.                                            *)
validate_recommendation(rec, fresh) ==
    /\ rec.status = "pending"
    /\ fresh

(* D1Client.create_trade as src/core/db/d1.py has it: the INSERT writes    *)
(* the literal status 'open'.                                              *)
create_trade(tbl, recommendation_id, broker_order_id) ==
    [tbl EXCEPT ![FreshId(tbl)] =
        [status |-> "open", broker_order_id |-> broker_order_id,
         recommendation_id |-> recommendation_id]]

(* AlpacaClient.place_spread_order / place_close_spread_order: the broker  *)
(* takes the order in as new.                                              *)
place_order(tbl, side) ==
    [tbl EXCEPT ![FreshId(tbl)] = [status |-> "new", side |-> side]]

(* Mutant: a check that lets every task through.                           *)
is_trading_allowed_always(key) == TRUE

(* GraduatedCircuitBreaker.is_trading_allowed.                             *)
is_trading_allowed(key) == ~get_circuit_breaker(key).halted

(* The arguments the handlers give evaluate_all: the daily starting equity *)
(* falls back to the account equity, the weekly one does when it is 0, the *)
(* peak is the larger of the two.                                          *)
handler_evaluate_all(cb, stats, weekly_start, equity, vix, t) ==
    LET sd == equity
        sw == IF weekly_start = 0 THEN equity ELSE weekly_start
    IN  evaluate_all(cb, stats, sd, sw, Max2(sd, sw), equity, vix, NoTime, t)

(***************************************************************************)
(* Tasks: the three scheduled scans and the approve webhook.  A task       *)
(* record keeps, for its current or last run, whether its check of the     *)
(* halted flag saw the flag set and what the run has done since.           *)
(***************************************************************************)
ScanNames == {"morning", "midday", "afternoon"}
Webhooks  == {"approve", "approve2"}
TaskNames == ScanNames \cup Webhooks

IdleTask == [pc |-> "idle", saw_halted |-> FALSE, rec |-> NoId,
             sent_order |-> FALSE, made_rec |-> FALSE, made_trade |-> FALSE]

Returned(rec) == [rec EXCEPT !.pc = "idle"]

(* The record of a run after its check: where it goes on, and what the     *)
(* flag was when the check read it.                                        *)
Checked(pc, key) ==
    [IdleTask EXCEPT !.pc = pc, !.saw_halted = get_circuit_breaker(key).halted]

(* _run_morning_scan, lines 58-63: the quick check of the flag.            *)
MorningCheck ==
    /\ task["morning"].pc = "idle"
    /\ task' = [task EXCEPT !["morning"] =
                  Checked(IF get_circuit_breaker(cbKey).halted
                          THEN "idle" ELSE "market", cbKey)]
    /\ UNCHANGED <<riskVars, recs, trades, orders, positions, mon, hist, fill>>

(* A scan returns: the market is closed, the portfolio is at its heat      *)
(* limit, or nothing passed the screen.                                    *)
ScanReturn(k) ==
    /\ task[k].pc \in {"market", "scan"}
    /\ task' = [task EXCEPT ![k] = Returned(@)]
    /\ UNCHANGED <<riskVars, recs, trades, orders, positions, mon, hist, fill>>

(* _run_morning_scan, lines 111-132: the full evaluation, which reads the  *)
(* flag again and may trip the breaker; a halted result ends the scan.     *)
MorningEvaluate(weekly_start, equity, vix) ==
    LET r == handler_evaluate_all(cbKey, get_daily_stats(dailyKey),
                                  weekly_start, equity, vix, now)
        seen == task["morning"].saw_halted \/ get_circuit_breaker(cbKey).halted
    IN  /\ task["morning"].pc = "market"
        /\ cbKey' = r.cb
        /\ task' = [task EXCEPT !["morning"] =
                      [@ EXCEPT !.saw_halted = seen,
                                !.pc = IF r.state.level = "halted"
                                       THEN "idle" ELSE "scan"]]
        /\ UNCHANGED <<now, dailyKey, errKey, errLog, ret,
                       recs, trades, orders, positions, mon, hist, fill>>

(* _run_morning_scan, lines 212-347: one turn of the loop.  It creates the *)
(* recommendation; with AUTO_APPROVE_TRADES it then places the order and   *)
(* marks the recommendation approved (outcome "placed"), unless the broker *)
(* refuses the order ("refused").  The arguments of the create_trade call  *)
(* at lines 310-321 include TradeStatus.PENDING_FILL; TradeStatus          *)
(* (core/types.py lines 21-23) has the members OPEN and CLOSED only, so    *)
(* the AttributeError takes the turn to the except at line 343 before      *)
(* create_trade is entered: no trade is recorded.                          *)
MorningRecommend(outcome) ==
    LET r  == FreshId(recs)
        o  == FreshId(orders)
    IN  /\ task["morning"].pc = "scan"
        /\ HasFree(recs)
        /\ outcome = "placed" => HasFree(orders)
        /\ recs' = IF outcome = "placed"
                   THEN update_recommendation_status(
                            create_recommendation(recs), r, "approved")
                   ELSE create_recommendation(recs)
        /\ orders' = IF outcome = "placed"
                     THEN place_order(orders, "open") ELSE orders
        /\ task' = [task EXCEPT !["morning"] =
                      [@ EXCEPT !.rec = r, !.made_rec = TRUE,
                                !.sent_order = @ \/ outcome = "placed"]]
        /\ UNCHANGED <<riskVars, trades, positions, mon, hist, fill>>

(* handle_midday_check, lines 33-37, and handle_afternoon_scan, lines      *)
(* 33-36: the check of the flag.                                           *)
ScanCheck(k) ==
    /\ task[k].pc = "idle"
    /\ task' = [task EXCEPT ![k] =
                  Checked(IF ~is_trading_allowed(cbKey)
                          THEN "idle" ELSE "scan", cbKey)]
    /\ UNCHANGED <<riskVars, recs, trades, orders, positions, mon, hist, fill>>

(* handle_midday_check: with a recommendation still pending the scan is    *)
(* skipped (ScanReturn); otherwise at most one recommendation is created.  *)
MiddayRecommend ==
    /\ task["midday"].pc = "scan"
    /\ get_pending_recommendations(recs) = {}
    /\ HasFree(recs)
    /\ recs' = create_recommendation(recs)
    /\ task' = [task EXCEPT !["midday"] =
                  [@ EXCEPT !.pc = "idle", !.rec = FreshId(recs),
                            !.made_rec = TRUE]]
    /\ UNCHANGED <<riskVars, trades, orders, positions, mon, hist, fill>>

(* handle_afternoon_scan: at most one recommendation.                      *)
AfternoonRecommend ==
    /\ task["afternoon"].pc = "scan"
    /\ HasFree(recs)
    /\ recs' = create_recommendation(recs)
    /\ task' = [task EXCEPT !["afternoon"] =
                  [@ EXCEPT !.pc = "idle", !.rec = FreshId(recs),
                            !.made_rec = TRUE]]
    /\ UNCHANGED <<riskVars, trades, orders, positions, mon, hist, fill>>

(* handle_approve runs once per approve request; two requests, for the     *)
(* same recommendation or not, may be in progress together.  k names the   *)
(* request.                                                                *)
(* handle_approve, lines 103-114: look the recommendation up and validate  *)
(* it; a missing or invalid one ends the request (404, 400).               *)
WebhookValidate(k, rec_id, fresh) ==
    /\ task[k].pc = "idle"
    /\ task' = [task EXCEPT ![k] =
                  IF /\ recs[rec_id].status # "none"
                     /\ validate_recommendation(recs[rec_id], fresh)
                  THEN [IdleTask EXCEPT !.pc = "validated", !.rec = rec_id]
                  ELSE [IdleTask EXCEPT !.rec = rec_id]]
    /\ UNCHANGED <<riskVars, recs, trades, orders, positions, mon, hist, fill>>

(* handle_approve, lines 116-121: the check of the flag.                   *)
WebhookCheck(k) ==
    /\ task[k].pc = "validated"
    /\ task' = [task EXCEPT ![k] =
                  [Checked(IF ~is_trading_allowed(cbKey)
                           THEN "idle" ELSE "allowed", cbKey)
                   EXCEPT !.rec = task[k].rec]]
    /\ UNCHANGED <<riskVars, recs, trades, orders, positions, mon, hist, fill>>

(* handle_approve, lines 147-198: place the order, mark the recommendation *)
(* approved, record the trade, answer the interaction and count the trade  *)
(* in the daily stats.  sent is whether respond_to_interaction returned;   *)
(* when it raises DiscordError the handler goes to its except clause at    *)
(* line 195, past the update of the daily stats.                           *)
WebhookSubmitted(k, sent) ==
    LET rec_id == task[k].rec
    IN  /\ task[k].pc = "allowed"
        /\ HasFree(orders) /\ HasFree(trades)
        /\ orders' = place_order(orders, "open")
        /\ recs' = update_recommendation_status(recs, rec_id, "approved")
        /\ trades' = create_trade(trades, rec_id, FreshId(orders))
        /\ dailyKey' = IF sent
                       THEN [present |-> TRUE,
                             stats |-> updated_daily_stats(
                                           get_daily_stats(dailyKey), 1, 0, now)]
                       ELSE dailyKey
        /\ task' = [task EXCEPT ![k] =
                      [@ EXCEPT !.pc = "idle", !.sent_order = TRUE,
                                !.made_trade = TRUE]]
        /\ UNCHANGED <<now, cbKey, errKey, errLog, ret, positions, mon, hist, fill>>

(* The same with the interaction answered.                                 *)
WebhookSubmit(k) == WebhookSubmitted(k, TRUE)

(* handle_approve, lines 195-198: place_spread_order raised; the request   *)
(* ends with status 500 and nothing written.                               *)
WebhookOrderFails(k) ==
    /\ task[k].pc = "allowed"
    /\ task' = [task EXCEPT ![k] = Returned(@)]
    /\ UNCHANGED <<riskVars, recs, trades, orders, positions, mon, hist, fill>>

(* The same four steps for the request "approve".                          *)
ApproveValidate(rec_id, fresh) == WebhookValidate("approve", rec_id, fresh)

ApproveCheck == WebhookCheck("approve")

ApproveSubmit == WebhookSubmit("approve")

ApproveOrderFails == WebhookOrderFails("approve")

(***************************************************************************)
(* SpecTasks: the scans and the approve webhook run side by side while the *)
(* breaker is tripped and reset.                                           *)
(***************************************************************************)
InitTrades ==
    /\ now = 0
    /\ cbKey = AbsentCb
    /\ dailyKey = AbsentDaily
    /\ errKey = AbsentErr
    /\ errLog = << >>
    /\ ret = Ret("init", RiskStateNormal, << >>)
    /\ recs = [r \in RecIds |-> NoRec]
    /\ trades = [t \in TradeIds |-> NoTrade]
    /\ orders = [o \in OrderIds |-> NoOrder]
    /\ positions = {}
    /\ task = [k \in TaskNames |-> IdleTask]
    /\ mon = [p \in MonIds |-> IdleMon]
    /\ hist = [t \in TradeIds |-> NoHist]
    /\ fill = IdleFill

NextTasks ==
    \/ MorningCheck
    \/ \E k \in ScanNames : ScanReturn(k)
    \/ \E equity \in {940, 1000}, vix \in {NoVix, 50} :
            MorningEvaluate(1000, equity, vix)
    \/ \E outcome \in {"manual", "placed", "refused"} : MorningRecommend(outcome)
    \/ \E k \in {"midday", "afternoon"} : ScanCheck(k)
    \/ MiddayRecommend
    \/ AfternoonRecommend
    \/ \E rec_id \in RecIds, fresh \in BOOLEAN : ApproveValidate(rec_id, fresh)
    \/ ApproveCheck
    \/ ApproveSubmit
    \/ ApproveOrderFails
    \/ Trip(MANUAL)
    \/ Reset

SpecTasks == InitTrades /\ [][NextTasks]_vars

(***************************************************************************)
(* Claims about the tasks.                                                 *)
(***************************************************************************)
(* C5: a task whose check of the halted flag saw the flag set submits no   *)
(* opening order, creates no recommendation and records no trade in that   *)
(* run.                                                                    *)
C5_HaltedTaskDoesNothing ==
    \A k \in TaskNames :
        task[k].saw_halted =>
            /\ ~task[k].sent_order
            /\ ~task[k].made_rec
            /\ ~task[k].made_trade
            /\ task[k].pc = "idle"

(* The approve webhook was refused by the flag for a recommendation that   *)
(* is valid and still pending, while the morning scan, which saw the flag  *)
(* clear, has placed an order.                                             *)
C5_Witness ==
    /\ task["approve"].saw_halted
    /\ task["approve"].rec # NoId
    /\ recs[task["approve"].rec].status = "pending"
    /\ task["morning"].sent_order

(***************************************************************************)
(* The broker and the position monitor.                                    *)
(***************************************************************************)
RECURSIVE AscSeq(_)
AscSeq(S) ==
    IF S = {} THEN << >>
    ELSE LET m == CHOOSE x \in S : \A y \in S : x <= y
         IN  <<m>> \o AscSeq(S \ {m})

RECURSIVE DescSeq(_)
DescSeq(S) ==
    IF S = {} THEN << >>
    ELSE LET m == CHOOSE x \in S : \A y \in S : x >= y
         IN  <<m>> \o DescSeq(S \ {m})

(* D1Client.get_pending_fill_trades, as _reconcile_pending_orders uses it: *)
(* the trades whose status is pending_fill.                                *)
get_pending_fill_trades(tbl) ==
    AscSeq({t \in DOMAIN tbl : tbl[t].status = "pending_fill"})

(* D1Client.mark_trade_filled: the trade becomes open.                     *)
mark_trade_filled(tbl, trade_id) ==
    [tbl EXCEPT ![trade_id].status = "open"]

(* D1Client.update_trade_status.                                           *)
update_trade_status(tbl, trade_id, status) ==
    [tbl EXCEPT ![trade_id].status = status]

(* D1Client.get_open_trades: ORDER BY opened_at DESC, the newest first.    *)
get_open_trades(tbl) ==
    DescSeq({t \in DOMAIN tbl : tbl[t].status = "open"})

(* D1Client.close_trade: an UPDATE by id, whatever the status was.         *)
close_trade(tbl, trade_id) ==
    [tbl EXCEPT ![trade_id].status = "closed"]

(* D1Client.upsert_position and delete_position.                           *)
upsert_position(pos, trade_id) == pos \cup {trade_id}
delete_position(pos, trade_id) == pos \ {trade_id}

(* Mutant: a partly filled order counts as filled.                         *)
reconcile_outcome_partial(broker_order_id, order_status) ==
    IF broker_order_id = NoId THEN "expire_unqueried"
    ELSE IF order_status \in {"filled", "partially_filled"} THEN "fill"
    ELSE IF order_status \in {"expired", "canceled", "rejected"} THEN "expire"
    ELSE "wait"

(* _reconcile_pending_orders, lines 215-273: what one turn of the loop     *)
(* does with a trade, from its order id and the status the broker gave.    *)
reconcile_outcome(broker_order_id, order_status) ==
    IF broker_order_id = NoId THEN "expire_unqueried"
    ELSE IF order_status = "filled" THEN "fill"
    ELSE IF order_status \in {"expired", "canceled", "rejected"} THEN "expire"
    ELSE "wait"

(* The broker moves an order on: a working order fills in part or ends,    *)
(* a partly filled one fills or ends.                                      *)
BrokerMayMove(from, to) ==
    \/ /\ from \in {"new", "pending_new", "accepted"}
       /\ to \in {"partially_filled"} \cup OrderFinal
    \/ /\ from = "partially_filled"
       /\ to \in {"filled", "canceled", "expired"}

BrokerStep(o, to) ==
    /\ BrokerMayMove(orders[o].status, to)
    /\ orders' = [orders EXCEPT ![o].status = to]
    /\ UNCHANGED <<riskVars, recs, trades, positions, task, mon, hist, fill>>

(* _run_position_monitor, lines 46-50: the check of the flag.  With the   *)
(* flag set the run returns at once and changes nothing.                   *)
MonCheck(p) ==
    /\ mon[p].pc = "idle"
    /\ is_trading_allowed(cbKey)
    /\ mon' = [mon EXCEPT ![p] = [IdleMon EXCEPT !.pc = "list"]]
    /\ UNCHANGED <<riskVars, recs, trades, orders, positions, task, hist, fill>>

(* _reconcile_pending_orders, lines 208-211: list the pending trades.      *)
MonList(p) ==
    LET pending == get_pending_fill_trades(trades)
    IN  /\ mon[p].pc = "list"
        /\ mon' = [mon EXCEPT ![p] =
                     [@ EXCEPT !.pc = IF pending = << >>
                                      THEN "market" ELSE "reconcile",
                               !.pending = pending,
                               !.listed = {pending[i] : i \in 1..Len(pending)}]]
        /\ UNCHANGED <<riskVars, recs, trades, orders, positions,
                       task, hist, fill>>

(* _reconcile_pending_orders, lines 215-276: one turn of the loop, for the *)
(* next trade of the list.  answered is whether get_order returned; when   *)
(* it raised, the trade is left as it is.                                  *)
MonReconcile(p, answered) ==
    LET t   == Head(mon[p].pending)
        o   == trades[t].broker_order_id
        st  == IF o = NoId THEN "none" ELSE orders[o].status
        out == IF answered \/ o = NoId
               THEN reconcile_outcome(o, st) ELSE "error"
        rest == Tail(mon[p].pending)
    IN  /\ mon[p].pc = "reconcile"
        /\ trades' = CASE out = "fill" -> mark_trade_filled(trades, t)
                       [] out \in {"expire", "expire_unqueried"} ->
                              update_trade_status(trades, t, "expired")
                       [] OTHER -> trades
        /\ positions' = IF out = "expire"
                        THEN delete_position(positions, t) ELSE positions
        /\ dailyKey' = IF out = "fill"
                       THEN [present |-> TRUE,
                             stats |-> updated_daily_stats(
                                           get_daily_stats(dailyKey), 1, 0, now)]
                       ELSE dailyKey
        /\ hist' = IF out = "fill"
                   THEN [hist EXCEPT ![t].fills_applied = @ + 1] ELSE hist
        /\ mon' = [mon EXCEPT ![p] =
                     [@ EXCEPT !.pc = IF rest = << >> THEN "market" ELSE @,
                               !.pending = rest,
                               !.seen[t] = CASE o = NoId -> "no_id"
                                             [] out = "error" -> "error"
                                             [] OTHER -> st,
                               !.queried = IF o = NoId THEN @ ELSE @ \cup {t},
                               !.all_ok = @ /\ out # "error",
                               !.messaged = IF out \in {"fill", "expire"}
                                            THEN @ \cup {t} ELSE @]]
        /\ UNCHANGED <<now, cbKey, errKey, errLog, ret, recs, orders, task, fill>>

(* _run_position_monitor, lines 68-78: the market is closed, or no trade   *)
(* is open: the run returns.                                               *)
MonReturn(p) ==
    /\ mon[p].pc = "market"
    /\ mon' = [mon EXCEPT ![p] = IdleMon]
    /\ UNCHANGED <<riskVars, recs, trades, orders, positions, task, hist, fill>>

(* _run_position_monitor, line 74: list the open trades.                   *)
MonListOpen(p) ==
    /\ mon[p].pc = "market"
    /\ get_open_trades(trades) # << >>
    /\ mon' = [mon EXCEPT ![p] =
                 [IdleMon EXCEPT !.pc = "risk", !.open = get_open_trades(trades)]]
    /\ UNCHANGED <<riskVars, recs, trades, orders, positions, task, hist, fill>>

(* _run_position_monitor, lines 85-115: the risk evaluation; a halted      *)
(* result ends the run.  sent is whether send_circuit_breaker_alert, which *)
(* is called for a state that asks for an alert and has a reason, returns; *)
(* its DiscordError is caught nowhere in the run, which ends there.        *)
MonEvaluated(p, weekly_start, equity, sent) ==
    LET r == handler_evaluate_all(cbKey, get_daily_stats(dailyKey),
                                  weekly_start, equity, NoVix, now)
        raised == r.state.should_alert /\ Truthy(r.state.reason) /\ ~sent
    IN  /\ mon[p].pc = "risk"
        /\ cbKey' = r.cb
        /\ mon' = [mon EXCEPT ![p] =
                     IF raised \/ r.state.level = "halted"
                     THEN IdleMon ELSE [@ EXCEPT !.pc = "monitor"]]
        /\ UNCHANGED <<now, dailyKey, errKey, errLog, ret,
                       recs, trades, orders, positions, task, hist, fill>>

(* The same with the alert, if any, delivered.                             *)
MonEvaluate(p, weekly_start, equity) == MonEvaluated(p, weekly_start, equity, TRUE)

(* _run_position_monitor, lines 118-197, and _auto_execute_exit: one turn  *)
(* of the loop over the listed open trades.  what is                       *)
(*   "chain_error"  get_options_chain raised: one more API error counted;  *)
(*   "no_contract"  a leg is not in the chain: the trade is skipped;       *)
(*   "hold"         the snapshot is written, no exit condition holds;      *)
(*   "alert"        an exit condition holds, auto-execute is off;          *)
(*   "exit"         auto-execute: the closing order is placed, the trade   *)
(*                  closed, its snapshot deleted, the P/L booked;          *)
(*   "exit_failed"  auto-execute: placing the closing order raised;        *)
(*   "exit_unrecorded"  auto-execute: the closing order is placed and      *)
(*                  db.close_trade, the next call of the try block,        *)
(*                  raised: the except of line 353 reports it and the      *)
(*                  trade stays open with its snapshot.                    *)
MonProcess(p, what, pnl) ==
    LET t    == Head(mon[p].open)
        rest == Tail(mon[p].open)
        priced == what \in {"hold", "alert", "exit", "exit_failed",
                            "exit_unrecorded"}
        ordered == what \in {"exit", "exit_unrecorded"}
    IN  /\ mon[p].pc = "monitor"
        /\ ordered => HasFree(orders)
        /\ errKey' = IF what = "chain_error"
                     THEN incremented_error_key(errKey, now, error_window_seconds)
                     ELSE errKey
        /\ errLog' = IF what = "chain_error"
                     THEN logged_error(errLog, now) ELSE errLog
        /\ orders' = IF ordered
                     THEN place_order(orders, "close") ELSE orders
        /\ trades' = IF what = "exit" THEN close_trade(trades, t) ELSE trades
        /\ positions' = CASE what = "exit" -> delete_position(positions, t)
                          [] priced /\ what # "exit" -> upsert_position(positions, t)
                          [] OTHER -> positions
        /\ dailyKey' = IF what = "exit"
                       THEN [present |-> TRUE,
                             stats |-> updated_daily_stats(
                                           get_daily_stats(dailyKey), 0, pnl, now)]
                       ELSE dailyKey
        /\ hist' = CASE what = "exit" ->
                            [hist EXCEPT ![t].close_order = FreshId(orders),
                                         ![t].closing_orders = @ + 1]
                     [] what = "exit_unrecorded" ->
                            [hist EXCEPT ![t].closing_orders = @ + 1]
                     [] what = "alert" -> [hist EXCEPT ![t].alerted = TRUE]
                     [] OTHER -> hist
        /\ mon' = [mon EXCEPT ![p] =
                     IF rest = << >> THEN IdleMon ELSE [@ EXCEPT !.open = rest]]
        /\ UNCHANGED <<now, cbKey, ret, recs, task, fill>>

(***************************************************************************)
(* SpecTrades: the morning scan with auto-approve, the approve webhook,    *)
(* the broker and one position monitor, run after run.  No trade of these  *)
(* runs is pending_fill, so the monitor has nothing to reconcile.          *)
(***************************************************************************)
NextTrades ==
    \/ MorningCheck
    \/ ScanReturn("morning")
    \/ MorningEvaluate(1000, 1000, NoVix)
    \/ \E outcome \in {"manual", "placed"} : MorningRecommend(outcome)
    \/ \E rec_id \in RecIds : ApproveValidate(rec_id, TRUE)
    \/ ApproveCheck
    \/ ApproveSubmit
    \/ \E o \in OrderIds, to \in {"filled", "canceled"} : BrokerStep(o, to)
    \/ MonCheck(1)
    \/ MonList(1)
    \/ MonReturn(1)
    \/ MonListOpen(1)
    \/ MonEvaluate(1, 1000, 1000)
    \/ \E what \in {"hold", "alert", "exit", "exit_failed"} :
            MonProcess(1, what, 0 - LossStep)

SpecTrades == InitTrades /\ [][NextTrades]_vars

(***************************************************************************)
(* Claims about the trade lifecycle.                                       *)
(***************************************************************************)
LifecycleSteps ==
    {<<"none", "pending_fill">>, <<"pending_fill", "open">>,
     <<"pending_fill", "expired">>, <<"open", "closed">>}

(* C6: every trade is created in pending_fill, and a trade's status only   *)
(* moves pending_fill -> open, pending_fill -> expired or open -> closed;  *)
(* closed and expired are never left.                                      *)
C6_TradeLifecycle ==
    [][\A t \in TradeIds :
          trades'[t].status # trades[t].status =>
              <<trades[t].status, trades'[t].status>> \in LifecycleSteps]_vars

(* C7: the local state of a trade is never ahead of the broker: a trade is *)
(* open only when the broker has filled its opening order, and closed only *)
(* when the broker has filled its closing order.                           *)
C7_NeverAheadOfBroker ==
    \A t \in TradeIds :
        /\ trades[t].status = "open" =>
               /\ trades[t].broker_order_id # NoId
               /\ orders[trades[t].broker_order_id].status = "filled"
        /\ trades[t].status = "closed" =>
               /\ hist[t].close_order # NoId
               /\ orders[hist[t].close_order].status = "filled"

TradeKinds == {"none", "open", "pending", "no_id"}

InitRecon ==
    /\ now = 0
    /\ cbKey = AbsentCb
    /\ dailyKey = AbsentDaily
    /\ errKey = AbsentErr
    /\ errLog = << >>
    /\ ret = Ret("init", RiskStateNormal, << >>)
    /\ recs = [r \in RecIds |-> NoRec]
    /\ \E kind \in [TradeIds -> TradeKinds], st \in [TradeIds -> OrderStatusValues] :
          /\ \A t \in TradeIds : kind[t] # "pending" => st[t] = "filled"
          /\ trades = [t \in TradeIds |->
                IF kind[t] = "none" THEN NoTrade
                ELSE [status |-> IF kind[t] = "open"
                                 THEN "open" ELSE "pending_fill",
                      broker_order_id |-> IF kind[t] = "no_id" THEN NoId ELSE t,
                      recommendation_id |-> NoId]]
          /\ orders = [o \in OrderIds |->
                IF o \in TradeIds /\ kind[o] \in {"open", "pending"}
                THEN [status |-> st[o], side |-> "open"] ELSE NoOrder]
          /\ positions \in SUBSET {t \in TradeIds : kind[t] = "open"}
    /\ task = [k \in TaskNames |-> IdleTask]
    /\ mon = [p \in MonIds |-> IdleMon]
    /\ hist = [t \in TradeIds |-> NoHist]
    /\ fill = IdleFill

NextRecon ==
    \/ MonCheck(1)
    \/ MonList(1)
    \/ \E answered \in BOOLEAN : MonReconcile(1, answered)
    \/ MonReturn(1)
    \/ \E o \in OrderIds, to \in OrderStatusValues : BrokerStep(o, to)

SpecRecon == InitRecon /\ [][NextRecon]_vars

(***************************************************************************)
(* SpecOverlap: runs of the position monitor that overlap, reconciling the *)
(* pending trades of the table.                                            *)
(***************************************************************************)
NextOverlap ==
    \/ \E o \in OrderIds, to \in {"filled", "canceled"} : BrokerStep(o, to)
    \/ \E p \in MonIds : MonCheck(p)
    \/ \E p \in MonIds : MonList(p)
    \/ \E p \in MonIds : MonReconcile(p, TRUE)
    \/ \E p \in MonIds : MonReturn(p)

SpecOverlap == InitRecon /\ [][NextOverlap]_vars

terminal_check(status) == "AttributeError"

(* Lines 721-725: the order may get its next price adjustment.             *)
adjustment_due(status, adjustments, schedule, elapsed) ==
    /\ status \in {"new", "partially_filled"}
    /\ adjustments < Len(schedule)
    /\ elapsed >= schedule[adjustments + 1]

(* Lines 697-699: the call starts with a first get_order; an error of the  *)
(* broker leaves the call as an exception.                                 *)
FillStart(o, timeout, schedule, answered) ==
    /\ fill.pc = "idle"
    /\ orders[o].status # "none"
    /\ fill' = IF answered
               THEN [IdleFill EXCEPT !.pc = "loop", !.order = o,
                                     !.timeout = timeout,
                                     !.schedule = schedule,
                                     !.observed = orders[o].status]
               ELSE [IdleFill EXCEPT !.pc = "raised", !.order = o,
                                     !.exit = "AlpacaError"]
    /\ UNCHANGED <<riskVars, tradeVars>>

(* AlpacaClient.replace_order, lines 654-658: the PATCH is handed to       *)
(* _trading_request under the keyword json, which _trading_request (lines  *)
(* 82-88: params, json_data) does not take: the call raises TypeError      *)
(* before any request leaves.                                              *)
replace_order == "TypeError"

(* Lines 701-751: one turn of the loop.  poll is the sleep; replaced and   *)
(* answered are whether the broker accepts a replace request and whether   *)
(* the refreshing get_order returns.  replaces counts the replace requests *)
(* that reach the broker.                                                  *)
FillPoll(poll, replaced, answered) ==
    LET f == fill
        o == f.order
        due == adjustment_due(f.observed, f.adjustments, f.schedule, f.elapsed)
        adjusted == due /\ replace_order = "sent" /\ replaced
        requested == due /\ replace_order = "sent"
    IN  /\ f.pc = "loop"
        /\ fill' =
             IF f.elapsed >= f.timeout
             THEN [f EXCEPT !.pc = "returned", !.exit = "timeout",
                            !.was_filled = FALSE]
             ELSE IF f.observed = "filled"
             THEN [f EXCEPT !.pc = "returned", !.exit = "filled",
                            !.was_filled = TRUE]
             ELSE IF terminal_check(f.observed) = "AttributeError"
             THEN [f EXCEPT !.pc = "raised", !.exit = "AttributeError"]
             ELSE IF terminal_check(f.observed) = "terminal"
             THEN [f EXCEPT !.pc = "returned", !.exit = "terminal",
                            !.was_filled = FALSE]
             ELSE IF due /\ replace_order = "TypeError"
             THEN [f EXCEPT !.pc = "raised", !.exit = "TypeError"]
             ELSE IF ~answered
             THEN [f EXCEPT !.pc = "returned", !.exit = "poll_failed",
                            !.adjustments = IF adjusted THEN @ + 1 ELSE @,
                            !.replaces = IF requested THEN @ + 1 ELSE @,
                            !.elapsed = @ + poll,
                            !.was_filled = (f.observed = "filled")]
             ELSE [f EXCEPT !.adjustments = IF adjusted THEN @ + 1 ELSE @,
                            !.replaces = IF requested THEN @ + 1 ELSE @,
                            !.elapsed = @ + poll,
                            !.observed = orders[o].status]
        /\ UNCHANGED <<riskVars, tradeVars>>

(* The caller has the result; the next call may start.                     *)
FillReset ==
    /\ fill.pc \in {"returned", "raised"}
    /\ fill' = IdleFill
    /\ UNCHANGED <<riskVars, tradeVars>>

(***************************************************************************)
(* SpecMonitor: calls of monitor_order_fill on orders in any broker status *)
(* while the broker moves the orders on.                                   *)
(***************************************************************************)
InitMonitor ==
    /\ now = 0
    /\ cbKey = AbsentCb
    /\ dailyKey = AbsentDaily
    /\ errKey = AbsentErr
    /\ errLog = << >>
    /\ ret = Ret("init", RiskStateNormal, << >>)
    /\ recs = [r \in RecIds |-> NoRec]
    /\ trades = [t \in TradeIds |-> NoTrade]
    /\ \E st \in [OrderIds -> OrderStatusValues] :
          orders = [o \in OrderIds |-> [status |-> st[o], side |-> "open"]]
    /\ positions = {}
    /\ task = [k \in TaskNames |-> IdleTask]
    /\ mon = [p \in MonIds |-> IdleMon]
    /\ hist = [t \in TradeIds |-> NoHist]
    /\ fill = IdleFill

NextMonitor ==
    \/ \E o \in OrderIds, timeout \in {0, 2}, schedule \in {<<0>>, <<1>>},
          answered \in BOOLEAN :
            FillStart(o, timeout, schedule, answered)
    \/ \E replaced \in BOOLEAN, answered \in BOOLEAN :
            FillPoll(1, replaced, answered)
    \/ FillReset
    \/ \E o \in OrderIds, to \in OrderStatusValues : BrokerStep(o, to)

SpecMonitor == InitMonitor /\ [][NextMonitor]_vars

(* C10: monitor_order_fill always returns (an error the broker itself      *)
(* answers with aside): with was_filled true when it saw the order filled, *)
(* false when it saw it cancelled, expired or rejected, false when the     *)
(* timeout was reached; and it never asks the broker to cancel the order.  *)
C10_MonitorAlwaysReturns ==
    /\ fill.pc = "raised" => fill.exit = "AlpacaError"
    /\ fill.pc = "returned" =>
          /\ fill.exit = "filled" => fill.was_filled
          /\ fill.exit \in {"terminal", "timeout"} => ~fill.was_filled
    /\ fill.cancels = 0

(* C11: while the order is unfilled and not final, the turn of the loop    *)
(* whose elapsed time has reached the next threshold of the schedule sends *)
(* that replace request; no request is sent before its threshold, and the  *)
(* count of successful adjustments grows by at most one per turn and never *)
(* beyond the length of the schedule.                                      *)
C11_LadderFollowsSchedule ==
    [][(fill.pc = "loop" /\ fill' # fill) =>
          LET next_due ==
                  /\ fill.adjustments < Len(fill.schedule)
                  /\ fill.elapsed >= fill.schedule[fill.adjustments + 1]
              working ==
                  /\ fill.elapsed < fill.timeout
                  /\ fill.observed \in
                       {"new", "pending_new", "accepted", "partially_filled"}
          IN  /\ working /\ next_due => fill'.replaces = fill.replaces + 1
              /\ fill'.replaces # fill.replaces => working /\ next_due
              /\ fill'.adjustments \in {fill.adjustments, fill.adjustments + 1}
              /\ fill'.adjustments <= Len(fill.schedule)]_vars

(***************************************************************************)
(* Part 4.  The exit rules (ExitValidator).                                *)
(*                                                                         *)
(* Prices are in cents.  A ValidationResult is [valid, reason]; the reason *)
(* texts, which embed formatted numbers, are named by their rule.          *)
(***************************************************************************)
PROFIT_TARGET_PCT == 50     \* percent of the entry credit
STOP_LOSS_PCT     == 200    \* percent of the entry credit
TIME_EXIT_DTE     == 21     \* days to expiry

ValidationResult(valid, reason) == [valid |-> valid, reason |-> reason]

(* ExitValidator.check_profit_target.                                      *)
check_profit_target(entry_credit, current_value) ==
    IF entry_credit <= 0
    THEN ValidationResult(FALSE, "Invalid entry credit")
    ELSE IF (entry_credit - current_value) * 100
                >= PROFIT_TARGET_PCT * entry_credit
    THEN ValidationResult(TRUE, "Profit target reached")
    ELSE ValidationResult(FALSE, NoStr)

(* ExitValidator.check_stop_loss: the loss current_value - entry_credit is *)
(* compared with entry_credit * 2.0.  Both sides are floating-point        *)
(* numbers: where the loss is exactly twice the credit the computed        *)
(* difference can fall just below the computed product (0.30 - 0.10 <      *)
(* 0.10 * 2.0), which rounded_down stands for; it never falls above.       *)
check_stop_loss(entry_credit, current_value, rounded_down) ==
    LET current_loss == current_value - entry_credit
        max_loss_before_stop == STOP_LOSS_PCT * entry_credit
    IN  IF entry_credit <= 0
        THEN ValidationResult(FALSE, "Invalid entry credit")
        ELSE IF \/ current_loss * 100 > max_loss_before_stop
                \/ current_loss * 100 = max_loss_before_stop /\ ~rounded_down
        THEN ValidationResult(TRUE, "Stop loss triggered")
        ELSE ValidationResult(FALSE, NoStr)

(* ExitValidator.check_time_exit, from the days to expiry.                 *)
check_time_exit(dte) ==
    IF dte <= TIME_EXIT_DTE
    THEN ValidationResult(TRUE, "Time exit triggered")
    ELSE ValidationResult(FALSE, NoStr)

(* Mutant: the stop loss is looked at before the profit target.            *)
first_triggered_stop_first(profit_check, stop_check, time_check) ==
    IF stop_check.valid THEN <<TRUE, stop_check.reason>>
    ELSE IF profit_check.valid THEN <<TRUE, profit_check.reason>>
    ELSE IF time_check.valid THEN <<TRUE, time_check.reason>>
    ELSE <<FALSE, NoStr>>

(* check_all_exit_conditions, lines 248-261: the priority among the three  *)
(* check results.                                                          *)
first_triggered(profit_check, stop_check, time_check) ==
    IF profit_check.valid THEN <<TRUE, profit_check.reason>>
    ELSE IF stop_check.valid THEN <<TRUE, stop_check.reason>>
    ELSE IF time_check.valid THEN <<TRUE, time_check.reason>>
    ELSE <<FALSE, NoStr>>

(* What a call of part 4 leaves in ret: the operation, its arguments, the  *)
(* results of the checks it made and what it returned.                     *)
Call(op, args, checks, result) ==
    [op |-> op, args |-> args, checks |-> checks, result |-> result]

CheckProfitTarget(entry_credit, current_value) ==
    /\ ret' = Call("check_profit_target", <<entry_credit, current_value>>,
                   << >>, check_profit_target(entry_credit, current_value))
    /\ UNCHANGED <<now, cbKey, dailyKey, errKey, errLog, tradeVars, fill>>

CheckStopLoss(entry_credit, current_value, rounded_down) ==
    /\ ret' = Call("check_stop_loss", <<entry_credit, current_value>>, << >>,
                   check_stop_loss(entry_credit, current_value, rounded_down))
    /\ UNCHANGED <<now, cbKey, dailyKey, errKey, errLog, tradeVars, fill>>

CheckTimeExit(dte) ==
    /\ ret' = Call("check_time_exit", <<dte>>, << >>, check_time_exit(dte))
    /\ UNCHANGED <<now, cbKey, dailyKey, errKey, errLog, tradeVars, fill>>

(* ExitValidator.check_all_exit_conditions.                                *)
CheckAllExitConditions(entry_credit, current_value, dte, rounded_down) ==
    LET checks == << check_profit_target(entry_credit, current_value),
                     check_stop_loss(entry_credit, current_value, rounded_down),
                     check_time_exit(dte) >>
    IN  /\ ret' = Call("check_all_exit_conditions",
                       <<entry_credit, current_value, dte>>, checks,
                       first_triggered(checks[1], checks[2], checks[3]))
        /\ UNCHANGED <<now, cbKey, dailyKey, errKey, errLog, tradeVars, fill>>

(* check_all_exit_conditions on a validator whose three checks are         *)
(* replaced (a subclass, a test double): the priority logic is the same,   *)
(* the check results are free.  No price makes the real profit-target and  *)
(* stop-loss checks trigger together.                                      *)
CheckAllWithChecks(profit_check, stop_check, time_check) ==
    /\ ret' = Call("check_all_exit_conditions", << >>,
                   <<profit_check, stop_check, time_check>>,
                   first_triggered(profit_check, stop_check, time_check))
    /\ UNCHANGED <<now, cbKey, dailyKey, errKey, errLog, tradeVars, fill>>

Credits    == {0 - 1, 0, 1, 2, 5}
CloseCosts == 0..16
DaysLeft   == {20, 21, 22}

CheckResults(reason) ==
    {ValidationResult(TRUE, reason), ValidationResult(FALSE, NoStr)}

(***************************************************************************)
(* SpecExit: the exit checks on prices around every threshold.             *)
(***************************************************************************)
NextExit ==
    \/ \E c \in Credits, v \in CloseCosts : CheckProfitTarget(c, v)
    \/ \E c \in Credits, v \in CloseCosts, rd \in BOOLEAN : CheckStopLoss(c, v, rd)
    \/ \E dte \in DaysLeft : CheckTimeExit(dte)
    \/ \E c \in Credits, v \in CloseCosts, dte \in DaysLeft, rd \in BOOLEAN :
            CheckAllExitConditions(c, v, dte, rd)
    \/ \E p \in CheckResults("Profit target reached"),
          s \in CheckResults("Stop loss triggered"),
          t \in CheckResults("Time exit triggered") : CheckAllWithChecks(p, s, t)

SpecExit == InitRisk /\ [][NextExit]_vars

(* C15: check_all_exit_conditions returns the reason of the first check    *)
(* that triggers, in the order profit target, stop loss, time exit, and    *)
(* (false, none) when none does; when the profit-target and the stop-loss  *)
(* check both trigger, the profit-target reason is returned.               *)
C15_FirstTriggeredWins ==
    ret.op = "check_all_exit_conditions" =>
        LET p == ret.checks[1]
            s == ret.checks[2]
            t == ret.checks[3]
        IN  /\ p.valid => ret.result = <<TRUE, p.reason>>
            /\ ~p.valid /\ s.valid => ret.result = <<TRUE, s.reason>>
            /\ ~p.valid /\ ~s.valid /\ t.valid => ret.result = <<TRUE, t.reason>>
            /\ ~p.valid /\ ~s.valid /\ ~t.valid => ret.result = <<FALSE, NoStr>>

(* Both the profit-target and the stop-loss check reported a trigger and   *)
(* the profit-target reason came back.                                     *)
C15_Witness ==
    /\ ret.op = "check_all_exit_conditions"
    /\ ret.checks[1].valid /\ ret.checks[2].valid
    /\ ret.result = <<TRUE, "Profit target reached">>

(* C16: check_stop_loss triggers exactly when the entry credit is positive *)
(* and the current cost to close is at least 200% of the entry credit.     *)
C16_StopLossAtTwiceCredit ==
    ret.op = "check_stop_loss" =>
        (ret.result.valid <=>
            /\ ret.args[1] > 0
            /\ ret.args[2] * 100 >= STOP_LOSS_PCT * ret.args[1])

(***************************************************************************)
(* Part 4, continued.  The position sizer (PositionSizer.calculate_size).  *)
(*                                                                         *)
(* Equity, open risk and the spread's maximum loss are in dollars, the     *)
(* limits of RiskLimits in percent, VIX in points.                         *)
(***************************************************************************)
max_risk_per_trade_pct  == 2
max_single_position_pct == 5
max_portfolio_heat_pct  == 10
high_vix_threshold      == 40
high_vix_reduction      == 75
extreme_vix_threshold   == 50

(* int(a / b) for b > 0: the quotient with its fraction dropped, towards   *)
(* zero for a negative one.                                                *)
Trunc(a, b) == IF a >= 0 THEN a \div b ELSE 0 - ((0 - a) \div b)

(* Mutant: the count is not kept at or above zero.                         *)
cap_limited_unclamped(max_loss, account_equity, current_heat) ==
    LET available_heat == Max2(0, max_portfolio_heat_pct * account_equity - 100 * current_heat)
        max_by_trade_risk == Trunc(max_risk_per_trade_pct * account_equity, 100 * max_loss)
        max_by_position == Trunc(max_single_position_pct * account_equity, 100 * max_loss)
        max_by_heat == Trunc(available_heat, 100 * max_loss)
    IN  IF max_loss <= 0 THEN 0
        ELSE Min2(max_by_trade_risk, Min2(max_by_position, max_by_heat))

(* calculate_size, lines 69-101: the largest count the 2% trade, the 5%    *)
(* position and the 10% portfolio-heat limit all allow; 0 for a spread     *)
(* without risk, for which the code returns 0 at once.                     *)
cap_limited(max_loss, account_equity, current_heat) ==
    LET available_heat == Max2(0, max_portfolio_heat_pct * account_equity - 100 * current_heat)
        max_by_trade_risk == Trunc(max_risk_per_trade_pct * account_equity, 100 * max_loss)
        max_by_position == Trunc(max_single_position_pct * account_equity, 100 * max_loss)
        max_by_heat == Trunc(available_heat, 100 * max_loss)
    IN  IF max_loss <= 0 THEN 0
        ELSE Max2(0, Min2(max_by_trade_risk, Min2(max_by_position, max_by_heat)))

(* PositionSizer.calculate_size: the contracts of its result.              *)
calculate_size(max_loss, account_equity, current_heat, current_vix) ==
    LET contracts == cap_limited(max_loss, account_equity, current_heat)
        adjusted == IF current_vix # NoVix /\ current_vix >= high_vix_threshold
                    THEN Max2(1, Trunc(contracts * (100 - high_vix_reduction), 100))
                    ELSE contracts
    IN  IF current_vix # NoVix /\ current_vix >= extreme_vix_threshold THEN 0
        ELSE IF max_loss <= 0 THEN 0
        ELSE IF adjusted > 0 THEN Max2(1, adjusted)
        ELSE adjusted

CalculateSize(max_loss, account_equity, current_heat, current_vix) ==
    /\ ret' = Call("calculate_size",
                   <<max_loss, account_equity, current_heat, current_vix>>,
                   <<cap_limited(max_loss, account_equity, current_heat)>>,
                   calculate_size(max_loss, account_equity, current_heat, current_vix))
    /\ UNCHANGED <<now, cbKey, dailyKey, errKey, errLog, tradeVars, fill>>

MaxLosses   == {0, 100, 250}
Equities    == {0 - 10000, 0, 4000, 5000, 10000, 20000, 40000, 100000}
OpenHeats   == {0, 500, 2000}
SizerVix    == {NoVix, 20, 39, 40, 45, 49, 50, 60}

(***************************************************************************)
(* SpecSizer: calculate_size on equities, spreads, open risk and VIX       *)
(* levels around every limit.                                              *)
(***************************************************************************)
NextSizer ==
    \E max_loss \in MaxLosses, account_equity \in Equities,
       current_heat \in OpenHeats, current_vix \in SizerVix :
          CalculateSize(max_loss, account_equity, current_heat, current_vix)

SpecSizer == InitRisk /\ [][NextSizer]_vars

(* C17: calculate_size returns a non-negative integer, and with the        *)
(* spread, the open positions and VIX fixed no smaller equity yields a     *)
(* larger count than the equity of the call.                               *)
C17_SizeMonotoneInEquity ==
    ret.op = "calculate_size" =>
        /\ ret.result \in Nat
        /\ \A smaller \in Equities :
              smaller <= ret.args[2] =>
                 calculate_size(ret.args[1], smaller, ret.args[3], ret.args[4])
                    <= ret.result

(* A call that returned more contracts than a smaller equity is given.     *)
C17_Witness ==
    /\ ret.op = "calculate_size"
    /\ ret.result >= 2
    /\ \E smaller \in Equities :
          /\ smaller < ret.args[2]
          /\ calculate_size(ret.args[1], smaller, ret.args[3], ret.args[4])
                < ret.result

(* C18: with VIX at or above 40 and below 50 calculate_size returns        *)
(* max(1, floor(0.25 n)) when the cap-limited count n is at least 1 and 0  *)
(* when n is 0; with VIX at or above 50 it returns 0.                      *)
C18_HighVixSizing ==
    (ret.op = "calculate_size" /\ ret.args[4] >= high_vix_threshold) =>
        LET n == ret.checks[1]
        IN  ret.result =
               IF ret.args[4] >= extreme_vix_threshold THEN 0
               ELSE IF n >= 1 THEN Max2(1, n \div 4)
               ELSE 0

(***************************************************************************)
(* Further claims about the circuit breaker (part 1).                      *)
(***************************************************************************)
(* The collected states none of which halts.                               *)
NoneHalts(states) == \A i \in DOMAIN states : states[i].level # "halted"

(* C19: a halt caused by stale market data (quote older than 10 s; 10 s    *)
(* exactly is not stale) lasts only until fresh data is observed: an       *)
(* evaluation that is given a quote of age at most 10 s, while no other    *)
(* factor halts, does not return halted and leaves trading allowed.        *)
C19_StaleHaltLiftsOnFreshData ==
    [][\A sd \in StartEquities, sw \in StartEquities, pk \in PeakEquities,
          cur \in CurEquities, vix \in VixLevels, lq \in QuoteTimes \ {NoTime} :
          ( /\ get_circuit_breaker(cbKey).halted
            /\ get_circuit_breaker(cbKey).reason = STALE_DATA
            /\ now - lq <= stale_data_seconds
            /\ NoneHalts(collect_states(get_daily_stats(dailyKey),
                                        sd, sw, pk, cur, vix, lq, now))
            /\ EvaluateAll(sd, sw, pk, cur, vix, lq) )
          => /\ ret'.state.level # "halted"
             /\ ~get_circuit_breaker(cbKey').halted]_vars

(***************************************************************************)
(* SpecErrors: check_api_errors at times up to and past the end of an      *)
(* error window.                                                           *)
(***************************************************************************)
MaxErrTime == 87    \* the clock of the error specification stops here
ErrorGaps  == {29}  \* seconds between two bursts of errors

NextErrors ==
    \/ CheckApiErrors(MaxErrCount)
    \/ \E d \in ErrorGaps : Tick(d, MaxErrTime)

SpecErrors == InitRisk /\ [][NextErrors]_vars

(* The number of check_api_errors calls, the last one included, made less  *)
(* than 60 seconds before now.                                             *)
TrailingErrors ==
    Cardinality({i \in DOMAIN errLog : now - errLog[i] < error_window_seconds})

(* C20: check_api_errors returns halted exactly when at least 5 errors,    *)
(* the one being recorded included, occurred within the trailing 60        *)
(* seconds, and normal otherwise, whatever the timing of the errors.       *)
C20_TrailingWindow ==
    ret.op = "check_api_errors" =>
        /\ ret.state.level \in {"halted", "normal"}
        /\ ret.state.level = "halted"
              <=> TrailingErrors >= max_api_errors_per_minute

(***************************************************************************)
(* The position monitor and the AUTO_APPROVE_TRADES setting.               *)
(***************************************************************************)
(* The values of env.AUTO_APPROVE_TRADES; NoStr is the unset attribute.    *)
AutoApproveSettings == {NoStr, "true", "True", "false", "1", "yes"}

(* str.lower() on those values and on the order sides of SideValues.       *)
lower(s) == CASE s \in {"true", "True"} -> "true"
              [] s = " Sell " -> " sell "
              [] OTHER -> s

(* Mutant: anything but "false" switches auto-execution on.                *)
auto_execute_unless_false(setting) ==
    lower(IF setting = NoStr THEN "false" ELSE setting) # "false"

(* position_monitor.py line 170:                                           *)
(* getattr(env, "AUTO_APPROVE_TRADES", "false").lower() == "true".         *)
auto_execute(setting) ==
    lower(IF setting = NoStr THEN "false" ELSE setting) = "true"

(* _run_position_monitor, lines 166-193: the branch taken on an exit       *)
(* condition; placed is whether place_close_spread_order returned.         *)
exit_branch(setting, placed) ==
    IF auto_execute(setting)
    THEN (IF placed THEN "exit" ELSE "exit_failed")
    ELSE "alert"

(* One turn of the monitor's loop in which an exit condition holds.        *)
MonExitFound(p, setting, placed, pnl) ==
    MonProcess(p, exit_branch(setting, placed), pnl)

(***************************************************************************)
(* SpecManual: one position monitor, run after run over the trades of      *)
(* InitRecon, under every value of the AUTO_APPROVE_TRADES setting.        *)
(***************************************************************************)
NextManual ==
    \/ MonCheck(1)
    \/ MonList(1)
    \/ \E answered \in BOOLEAN : MonReconcile(1, answered)
    \/ MonReturn(1)
    \/ MonListOpen(1)
    \/ MonEvaluate(1, 1000, 1000)
    \/ MonProcess(1, "hold", 0)
    \/ \E setting \in AutoApproveSettings, placed \in BOOLEAN :
            MonExitFound(1, setting, placed, 0 - LossStep)

SpecManual == InitRecon /\ [][NextManual]_vars

(* C12: when auto-execution is not explicitly enabled, a turn of the       *)
(* position monitor that finds an exit condition places no closing order,  *)
(* changes no trade's status, deletes no position snapshot and books no    *)
(* realized P/L; it sends the exit alert.                                  *)
C12_NoAutoExitUnlessEnabled ==
    [][\A p \in MonIds, setting \in AutoApproveSettings \ {"true", "True"},
          placed \in BOOLEAN :
          MonExitFound(p, setting, placed, 0 - LossStep) =>
             /\ orders' = orders
             /\ \A t \in TradeIds : trades'[t].status = trades[t].status
             /\ positions \subseteq positions'
             /\ dailyKey' = dailyKey
             /\ hist'[Head(mon[p].open)].alerted]_vars

(* An exit alert was sent for a trade that is still open, with its         *)
(* snapshot, and no closing order for it exists.                           *)
C12_Witness ==
    \E t \in TradeIds :
        /\ hist[t].alerted
        /\ hist[t].close_order = NoId
        /\ trades[t].status = "open"
        /\ t \in positions

(***************************************************************************)
(* SpecSnapshots: runs of the position monitor that overlap, each with its *)
(* own list of the open trades, holding or closing them.                   *)
(***************************************************************************)
NextSnapshots ==
    \E p \in MonIds :
        \/ MonCheck(p)
        \/ MonList(p)
        \/ MonReconcile(p, TRUE)
        \/ MonReturn(p)
        \/ MonListOpen(p)
        \/ MonEvaluate(p, 1000, 1000)
        \/ \E what \in {"hold", "exit"} : MonProcess(p, what, 0 - LossStep)

SpecSnapshots == InitRecon /\ [][NextSnapshots]_vars

NextApprove ==
    \/ MorningCheck
    \/ ScanReturn("morning")
    \/ MorningEvaluate(1000, 1000, NoVix)
    \/ MorningRecommend("manual")
    \/ \E k \in Webhooks :
          \/ \E rec_id \in RecIds, fresh \in BOOLEAN :
                  WebhookValidate(k, rec_id, fresh)
          \/ WebhookCheck(k)
          \/ WebhookSubmit(k)
          \/ WebhookOrderFails(k)

SpecApprove == InitTrades /\ [][NextApprove]_vars

(* The opening orders submitted for recommendation r: create_trade records *)
(* each with the recommendation's id.                                      *)
OpeningOrders(r) ==
    {trades[t].broker_order_id :
        t \in {u \in TradeIds : /\ trades[u].status # "none"
                                /\ trades[u].recommendation_id = r}}

(* C14: at most one opening order is ever submitted per recommendation,    *)
(* and none once its status is no longer pending (expiry is what the       *)
(* validation was given), approve requests for the same recommendation     *)
(* being processed together included.                                      *)
C14_OneOrderPerRecommendation ==
    [][\A k \in Webhooks :
          WebhookSubmit(k) =>
             /\ recs[task[k].rec].status = "pending"
             /\ OpeningOrders(task[k].rec) = {}
             /\ Cardinality(OpeningOrders(task[k].rec)') = 1]_vars

(***************************************************************************)
(* Further claims about the position sizer.                                *)
(***************************************************************************)
(* C29: with VIX below the extreme threshold and a positive maximum loss   *)
(* per contract, the returned count c exceeds none of the three caps:      *)
(* c x maxLoss is at most 2% of equity, at most 5% of equity and at most   *)
(* 10% of equity less the open risk; c is 0 where a cap leaves no room.    *)
C29_WithinAllCaps ==
    (/\ ret.op = "calculate_size"
     /\ ret.args[4] < extreme_vix_threshold
     /\ ret.args[1] > 0) =>
        LET max_loss == ret.args[1]
            equity   == ret.args[2]
            heat     == ret.args[3]
            c        == ret.result
        IN  \/ c = 0
            \/ /\ c * max_loss * 100 <= max_risk_per_trade_pct * equity
               /\ c * max_loss * 100 <= max_single_position_pct * equity
               /\ c * max_loss * 100 <= max_portfolio_heat_pct * equity - 100 * heat

(***************************************************************************)
(* Further claims about the evaluators (part 1).                           *)
(***************************************************************************)
(* evaluate_daily_risk called on its own.                                  *)
EvaluateDailyRisk(starting_equity, current_equity) ==
    /\ ret' = Call("evaluate_daily_risk", <<starting_equity, current_equity>>,
                   << >>, evaluate_daily_risk(starting_equity, current_equity))
    /\ UNCHANGED <<now, cbKey, dailyKey, errKey, errLog, tradeVars, fill>>

DayStarts == {0 - 1000, 0, 1000, 100000}
DayEnds   == {0 - 1010, 0, 850, 979, 980, 981, 984, 985, 986, 989, 990, 991,
              1000, 1010, 97900, 97999, 98000, 98001, 98499, 98500, 98501,
              98999, 99000, 99001, 100000, 100100}

(***************************************************************************)
(* SpecDaily: evaluate_daily_risk on equities at, just below and just      *)
(* above each threshold, and on starting equities at and below zero.       *)
(***************************************************************************)
NextDaily ==
    \E starting_equity \in DayStarts, current_equity \in DayEnds :
        EvaluateDailyRisk(starting_equity, current_equity)

SpecDaily == InitRisk /\ [][NextDaily]_vars

(* C30: evaluate_daily_risk, with the loss (start - current) / start kept  *)
(* at or above 0 and taken as 0 for a start at or below 0, returns halted  *)
(* with multiplier 0 and the daily-limit reason at a loss of 2% or more,   *)
(* caution with multiplier 0.5 and an alert from 1.5%, elevated with       *)
(* multiplier 1.0 and an alert from 1%, and normal below; each threshold   *)
(* is inclusive.                                                           *)
C30_DailyLadder ==
    ret.op = "evaluate_daily_risk" =>
        LET sd  == ret.args[1]
            cur == ret.args[2]
            reaches(bp) == sd > 0 /\ (sd - cur) * 10000 >= bp * sd
            got == ret.result
        IN  /\ reaches(200) =>
                   /\ got.level = "halted" /\ got.size_multiplier = 0
                   /\ got.reason = DAILY_HALT
            /\ reaches(150) /\ ~reaches(200) =>
                   /\ got.level = "caution" /\ got.size_multiplier = 50
                   /\ got.should_alert
            /\ reaches(100) /\ ~reaches(150) =>
                   /\ got.level = "elevated" /\ got.size_multiplier = 100
                   /\ got.should_alert
            /\ ~reaches(100) => got = RiskStateNormal

(* evaluate_daily_risk returned caution at a loss of exactly 1.5%.         *)
C30_Witness ==
    /\ ret.op = "evaluate_daily_risk"
    /\ ret.args = <<100000, 98500>>
    /\ ret.result.level = "caution"

(* C27: whenever the persisted circuit-breaker status is halted it carries *)
(* a non-empty reason, after any sequence of trip, reset and evaluate_all  *)
(* calls.                                                                  *)
C27_HaltedHasReason ==
    get_circuit_breaker(cbKey).halted =>
        /\ get_circuit_breaker(cbKey).reason # NoStr
        /\ get_circuit_breaker(cbKey).reason # ""

(***************************************************************************)
(* The price of a ladder adjustment (monitor_order_fill, lines 725-728).   *)
(* Prices are in cents: place_spread_order submits an opening order at the *)
(* negative of its credit, place_close_spread_order a closing order at a   *)
(* positive debit, both rounded to cents.                                  *)
(***************************************************************************)
(* new_price = max(0.01, round(current_order.limit_price - adjustment, 2)) *)
new_price(limit_price, adjustment) == Max2(1, limit_price - adjustment)

(* The adjustment block entered for an order at limit_price; the guard at  *)
(* line 723 skips an order without a limit price or with one of 0.         *)
AdjustPrice(limit_price, adjustment) ==
    /\ limit_price # 0
    /\ ret' = Call("new_price", <<limit_price, adjustment>>, << >>,
                   new_price(limit_price, adjustment))
    /\ UNCHANGED <<now, cbKey, dailyKey, errKey, errLog, tradeVars, fill>>

LimitPrices == (0 - 30)..30
LadderSteps == {2, 3}

(***************************************************************************)
(* SpecLadder: the adjustment price for opening and closing orders.        *)
(***************************************************************************)
NextLadder ==
    \E limit_price \in LimitPrices, adjustment \in LadderSteps :
        AdjustPrice(limit_price, adjustment)

SpecLadder == InitRisk /\ [][NextLadder]_vars

NextNotify ==
    \/ MorningCheck
    \/ ScanReturn("morning")
    \/ MorningEvaluate(1000, 1000, NoVix)
    \/ MorningRecommend("manual")
    \/ \E rec_id \in RecIds : WebhookValidate("approve", rec_id, TRUE)
    \/ WebhookCheck("approve")
    \/ \E sent \in BOOLEAN : WebhookSubmitted("approve", sent)
    \/ MonCheck(1)
    \/ MonList(1)
    \/ MonReturn(1)
    \/ MonListOpen(1)
    \/ \E equity \in {970, 1000}, sent \in BOOLEAN :
            MonEvaluated(1, 1000, equity, sent)
    \/ MonProcess(1, "hold", 0)

SpecNotify == InitTrades /\ [][NextNotify]_vars

(* C25: a failure of the notification sink does not prevent the updates of *)
(* the trading state in the same task: a step whose send failed changes    *)
(* the trades, the daily stats and the run's remaining work exactly as the *)
(* same step with the send delivered.                                      *)
C25_SendFailureChangesNothing ==
    [][/\ \A k \in Webhooks :
            WebhookSubmitted(k, FALSE) => WebhookSubmitted(k, TRUE)
       /\ \A p \in MonIds, equity \in {970, 1000} :
            MonEvaluated(p, 1000, equity, FALSE)
               => MonEvaluated(p, 1000, equity, TRUE)]_vars
MissingKey == "<missing>"
SideValues == {MissingKey, NoStr, "", "buy", "sell", " Sell ", "hold"}

(* str.strip() on those values.                                            *)
strip(s) == CASE s = " sell " -> "sell"
              [] OTHER -> s

(* OrderSide(value): the enum has the values buy and sell, any other value *)
(* raises ValueError.                                                      *)
OrderSide(value) == IF value \in {"buy", "sell"} THEN value ELSE "ValueError"

(* Lines 472-476 and 498-502: .get("side", ""), None replaced by "", then  *)
(* str(...).lower().strip().                                               *)
side_str(raw) == strip(lower(IF raw \in {MissingKey, NoStr} THEN "" ELSE raw))

(* Mutant: every leg without a valid side is the short leg.                *)
leg_side_all_sell(raw, i) ==
    OrderSide(IF side_str(raw) \notin {"buy", "sell"}
              THEN "sell" ELSE side_str(raw))

(* Lines 470-486: the side of leg i, counted from 0.                       *)
leg_side(raw, i) ==
    OrderSide(IF side_str(raw) \notin {"buy", "sell"}
              THEN (IF i = 0 THEN "sell" ELSE "buy") ELSE side_str(raw))

(* _parse_order as a function of the side fields: leg_sides is the list of *)
(* the legs' side fields, << >> for an order with no legs (legs is then    *)
(* None).  error is the exception an OrderSide(...) call raised, if any.   *)
parse_order(side, leg_sides) ==
    LET legs == [i \in 1..Len(leg_sides) |-> leg_side(leg_sides[i], i - 1)]
        top  == OrderSide(IF side_str(side) \notin {"buy", "sell"}
                          THEN (IF legs # << >> THEN legs[1] ELSE "buy")
                          ELSE side_str(side))
        bad  == top = "ValueError" \/ \E i \in DOMAIN legs : legs[i] = "ValueError"
    IN  [error |-> IF bad THEN "ValueError" ELSE NoStr,
         side |-> top, legs |-> legs]

ParseOrder(side, leg_sides) ==
    /\ ret' = Call("_parse_order", <<side, leg_sides>>, << >>,
                   parse_order(side, leg_sides))
    /\ UNCHANGED <<now, cbKey, dailyKey, errKey, errLog, tradeVars, fill>>

(* Orders of up to MaxLegs legs.                                           *)
MaxLegs == 2
LegSides == UNION {[1..n -> SideValues] : n \in 0..MaxLegs}

(***************************************************************************)
(* SpecParse: _parse_order on every combination of side fields.            *)
(***************************************************************************)
NextParse ==
    \E side \in SideValues, leg_sides \in LegSides : ParseOrder(side, leg_sides)

SpecParse == InitRisk /\ [][NextParse]_vars

(* C23: _parse_order raises nothing on account of a side.  A side that     *)
(* says buy or sell (in any case, with blanks around it) is kept; any      *)
(* other top-level side, missing and null included, becomes the first      *)
(* leg's side, or buy for an order with no legs; any other leg side        *)
(* becomes sell for the first leg and buy for a later one.                 *)
C23_SideNeverFails ==
    ret.op = "_parse_order" =>
        LET said(raw) == CASE raw = "buy" -> "buy"
                           [] raw \in {"sell", " Sell "} -> "sell"
                           [] OTHER -> NoStr
            side == ret.args[1]
            leg_sides == ret.args[2]
            out == ret.result
        IN  /\ out.error = NoStr
            /\ Len(out.legs) = Len(leg_sides)
            /\ \A i \in DOMAIN leg_sides :
                  out.legs[i] = IF said(leg_sides[i]) # NoStr
                                THEN said(leg_sides[i])
                                ELSE IF i = 1 THEN "sell" ELSE "buy"
            /\ out.side = IF said(side) # NoStr THEN said(side)
                          ELSE IF leg_sides # << >> THEN out.legs[1]
                          ELSE "buy"

(* The scenario of the specification: an empty top-level side with the     *)
(* legs sell and buy gives a sell order; and two legs with empty sides     *)
(* under a null top-level side give sell, buy and a sell order.            *)
C23_Witness ==
    /\ ret.op = "_parse_order"
    /\ \/ /\ ret.args = <<"", <<"sell", "buy">> >>
          /\ ret.result.side = "sell"
       \/ /\ ret.args = <<NoStr, <<"", "">> >>
          /\ ret.result = [error |-> NoStr, side |-> "sell",
                           legs |-> <<"sell", "buy">>]

(***************************************************************************)
(* OCC option symbols.  A string is a sequence of one-character strings;   *)
(* a strike is a whole number of thousandths of a dollar, which stands for *)
(* the float nearest to it.                                                *)
(***************************************************************************)
DigitChars == <<"0", "1", "2", "3", "4", "5", "6", "7", "8", "9">>

isdigit(c) == \E d \in DOMAIN DigitChars : DigitChars[d] = c

(* int(c) for one digit.                                                   *)
digit_value(c) == (CHOOSE d \in DOMAIN DigitChars : DigitChars[d] = c) - 1

(* int(text) for a text of digits, most significant first.                 *)
RECURSIVE int_of(_)
int_of(text) ==
    IF text = << >> THEN 0
    ELSE 10 * int_of(SubSeq(text, 1, Len(text) - 1)) + digit_value(text[Len(text)])

RECURSIVE Pow10(_)
Pow10(n) == IF n = 0 THEN 1 ELSE 10 * Pow10(n - 1)

(* f"{n:08d}" for 0 <= n < 10^8.                                           *)
format_08d(n) == [i \in 1..8 |-> DigitChars[((n \div Pow10(8 - i)) % 10) + 1]]

(* The strikes, among Strikes, whose float times 1000 falls just below the *)
(* whole number: 2.01 * 1000 = 2009.9999999999998 and                      *)
(* 16.06 * 1000 = 16059.999999999998 in IEEE double arithmetic.            *)
ProductBelow == {2010, 16060}

(* int(trade.short_strike * 1000): int() truncates the float product.      *)
int_strike_1000(strike) == IF strike \in ProductBelow THEN strike - 1 ELSE strike

(* position_monitor.py lines 124-130: the symbol of a leg from the trade's *)
(* underlying, its expiration YYYY-MM-DD, its spread type and a strike.    *)
occ_symbol(underlying, expiration, spread_type, strike) ==
    LET exp_str == SubSeq(expiration, 3, 4) \o SubSeq(expiration, 6, 7)
                       \o SubSeq(expiration, 9, 10)
        option_type == IF spread_type = "bull_put" THEN "P" ELSE "C"
    IN  underlying \o exp_str \o <<option_type>> \o format_08d(int_strike_1000(strike))

(* The None of parse_occ_symbol.                                           *)
NoParse == [none |-> TRUE, underlying |-> << >>, expiration |-> << >>,
            option_type |-> NoStr, strike |-> 0]

(* AlpacaClient.parse_occ_symbol, lines 165-188.  i is the length of the   *)
(* prefix before the first digit; int() of a text that is not all digits   *)
(* raises ValueError, which is caught.                                     *)
parse_occ_symbol(symbol) ==
    LET n == Len(symbol)
        i == IF \E j \in 1..n : isdigit(symbol[j])
             THEN (CHOOSE j \in 1..n :
                      /\ isdigit(symbol[j])
                      /\ \A k \in 1..(j - 1) : ~isdigit(symbol[k])) - 1
             ELSE n
        underlying == SubSeq(symbol, 1, i)
        date_part == SubSeq(symbol, i + 1, i + 6)
        rest == SubSeq(symbol, i + 8, n)
    IN  IF underlying = << >> \/ n < i + 15 THEN NoParse
        ELSE IF \E j \in DOMAIN rest : ~isdigit(rest[j]) THEN NoParse
        ELSE [none |-> FALSE,
              underlying |-> underlying,
              expiration |-> <<"2", "0">> \o SubSeq(date_part, 1, 2) \o <<"-">>
                               \o SubSeq(date_part, 3, 4) \o <<"-">>
                               \o SubSeq(date_part, 5, 6),
              option_type |-> IF symbol[i + 7] = "C" THEN "call" ELSE "put",
              strike |-> int_of(rest)]

(* A leg's symbol is built as the position monitor builds it and parsed.   *)
BuildAndParse(underlying, expiration, spread_type, strike) ==
    /\ ret' = Call("occ_round_trip", <<underlying, expiration, spread_type, strike>>,
                   occ_symbol(underlying, expiration, spread_type, strike),
                   parse_occ_symbol(occ_symbol(underlying, expiration,
                                               spread_type, strike)))
    /\ UNCHANGED <<now, cbKey, dailyKey, errKey, errLog, tradeVars, fill>>

ParseOccSymbol(symbol) ==
    /\ ret' = Call("parse_occ_symbol", symbol, << >>,
                   parse_occ_symbol(symbol))
    /\ UNCHANGED <<now, cbKey, dailyKey, errKey, errLog, tradeVars, fill>>

Underlyings == {<<"S", "P", "Y">>, <<"F">>, <<"G", "O", "O", "G", "L">>}
Expirations ==
    {<<"2", "0", "2", "4", "-", "0", "1", "-", "1", "9">>,
     <<"2", "0", "2", "6", "-", "1", "2", "-", "1", "8">>,
     <<"2", "0", "3", "0", "-", "0", "6", "-", "2", "1">>}
SpreadTypes == {"bull_put", "bear_call"}
Strikes == {5, 500, 2000, 2010, 16060, 470000, 500000, 99999999}

(* Texts that are not well-formed symbols: no prefix, a short tail, a      *)
(* letter among the strike digits, no digit at all, the empty text.        *)
BadSymbols ==
    {<<"2", "4", "0", "1", "1", "9", "C", "0", "0", "5", "0", "0", "0", "0", "0">>,
     <<"S", "P", "Y", "2", "4", "0", "1", "1", "9", "C", "0", "0", "5", "0", "0", "0", "0">>,
     <<"S", "P", "Y", "2", "4", "0", "1", "1", "9", "C", "0", "0", "5", "0", "0", "0", "0", "X">>,
     <<"S", "P", "Y">>,
     << >>}

(***************************************************************************)
(* SpecOcc: symbols built from trades and parsed back, and the parser on   *)
(* malformed texts.                                                        *)
(***************************************************************************)
NextOcc ==
    \/ \E underlying \in Underlyings, expiration \in Expirations,
          spread_type \in SpreadTypes, strike \in Strikes :
            BuildAndParse(underlying, expiration, spread_type, strike)
    \/ \E symbol \in BadSymbols : ParseOccSymbol(symbol)

SpecOcc == InitRisk /\ [][NextOcc]_vars

(* C24: parsing the symbol built for an underlying, an expiration, a type  *)
(* and a strike gives back that underlying, that expiration as YYYY-MM-DD, *)
(* call or put, and that strike; a text with no prefix before its first    *)
(* digit, or with fewer than 15 characters after the prefix, parses to     *)
(* None.                                                                   *)
C24_ParseInvertsSymbol ==
    /\ ret.op = "occ_round_trip" =>
          ret.result = [none |-> FALSE,
                        underlying |-> ret.args[1],
                        expiration |-> ret.args[2],
                        option_type |-> IF ret.args[3] = "bull_put"
                                        THEN "put" ELSE "call",
                        strike |-> ret.args[4]]
    /\ ret.op = "parse_occ_symbol" =>
          LET text == ret.args
          IN  (\/ text = << >>
               \/ isdigit(text[1])
               \/ \A j \in DOMAIN text : ~isdigit(text[j])
               \/ \E j \in DOMAIN text :
                     /\ isdigit(text[j])
                     /\ \A k \in 1..(j - 1) : ~isdigit(text[k])
                     /\ Len(text) - (j - 1) < 15)
              => ret.result.none

(***************************************************************************)
(* calculate_iv_rank.  Volatilities are whole percents; a rank is the      *)
(* fraction num / den with den > 0.                                        *)
(***************************************************************************)
Rank(num, den) == [num |-> num, den |-> den]

(* min(historical_ivs) and max(historical_ivs) of a list that is not empty *)
iv_low(historical_ivs) ==
    CHOOSE x \in {historical_ivs[i] : i \in DOMAIN historical_ivs} :
        \A i \in DOMAIN historical_ivs : x <= historical_ivs[i]
iv_high(historical_ivs) ==
    CHOOSE x \in {historical_ivs[i] : i \in DOMAIN historical_ivs} :
        \A i \in DOMAIN historical_ivs : x >= historical_ivs[i]

(* Mutant: the rank is capped at 100 but not raised to 0.                  *)
clamped_above_only(num, den) ==
    IF num > 100 * den THEN Rank(100, 1) ELSE Rank(num, den)

(* Line 43: max(0.0, min(100.0, iv_rank)).                                 *)
clamped(num, den) ==
    IF num < 0 THEN Rank(0, 1)
    ELSE IF num > 100 * den THEN Rank(100, 1)
    ELSE Rank(num, den)

(* calculate_iv_rank, lines 18-43.                                         *)
calculate_iv_rank(current_iv, historical_ivs) ==
    IF historical_ivs = << >> THEN Rank(50, 1)
    ELSE IF iv_high(historical_ivs) = iv_low(historical_ivs) THEN Rank(50, 1)
    ELSE clamped((current_iv - iv_low(historical_ivs)) * 100,
                 iv_high(historical_ivs) - iv_low(historical_ivs))

CalculateIvRank(current_iv, historical_ivs) ==
    /\ ret' = Call("calculate_iv_rank", <<current_iv, historical_ivs>>, << >>,
                   calculate_iv_rank(current_iv, historical_ivs))
    /\ UNCHANGED <<now, cbKey, dailyKey, errKey, errLog, tradeVars, fill>>

(* Histories of up to MaxHistory values.                                   *)
MaxHistory == 2
IvValues   == {10, 20, 25, 40}
CurrentIvs == {0, 10, 20, 25, 30, 40, 90}
Histories  == UNION {[1..n -> IvValues] : n \in 0..MaxHistory}

(***************************************************************************)
(* SpecIvRank: calculate_iv_rank on every current value and history.       *)
(***************************************************************************)
NextIvRank ==
    \E current_iv \in CurrentIvs, historical_ivs \in Histories :
        CalculateIvRank(current_iv, historical_ivs)

SpecIvRank == InitRisk /\ [][NextIvRank]_vars

(* C22 as stated: the rank is between 0 and 100; it is 0 when the current  *)
(* value is the least of the history, 100 when it is the greatest, and 50  *)
(* when the history is empty.                                              *)
C22_IvRankAsStated ==
    ret.op = "calculate_iv_rank" =>
        LET current_iv == ret.args[1]
            historical_ivs == ret.args[2]
            r == ret.result
        IN  /\ r.den > 0 /\ 0 <= r.num /\ r.num <= 100 * r.den
            /\ historical_ivs = << >> => r.num = 50 * r.den
            /\ historical_ivs # << >> =>
                  /\ current_iv = iv_low(historical_ivs) => r.num = 0
                  /\ current_iv = iv_high(historical_ivs) => r.num = 100 * r.den

(* C22, amended: the rank is between 0 and 100; it is 50 when the history  *)
(* is empty or all its values are equal; otherwise it is 0 when the        *)
(* current value is the least of the history and 100 when it is the        *)
(* greatest.                                                               *)
C22_IvRank ==
    ret.op = "calculate_iv_rank" =>
        LET current_iv == ret.args[1]
            historical_ivs == ret.args[2]
            r == ret.result
            flat == \A i, j \in DOMAIN historical_ivs :
                        historical_ivs[i] = historical_ivs[j]
        IN  /\ r.den > 0 /\ 0 <= r.num /\ r.num <= 100 * r.den
            /\ flat => r.num = 50 * r.den
            /\ ~flat =>
                  /\ current_iv = iv_low(historical_ivs) => r.num = 0
                  /\ current_iv = iv_high(historical_ivs) => r.num = 100 * r.den

(* The rank of the least value of a history of two different values is 0,  *)
(* and the rank of a value below the history was raised to 0.              *)
C22_Witness ==
    /\ ret.op = "calculate_iv_rank"
    /\ \/ ret.args = <<10, <<40, 10>> >> /\ ret.result.num = 0
       \/ ret.args = <<0, <<20, 25>> >> /\ ret.result = Rank(0, 1)

(***************************************************************************)
(* The options screener.  Strikes and quotes are in cents, deltas and the  *)
(* IV rank in hundredths.  ScreenerConfig, screener.py lines 14-37:        *)
(***************************************************************************)
min_dte == 30
max_dte == 45
min_delta == 20
max_delta == 30
min_iv_rank == 50
min_credit_pct == 25
min_width == 100
max_width == 1000
min_open_interest == 100
min_volume == 10
max_bid_ask_spread_pct == 10

(* iv_rank.py, is_elevated_iv.                                             *)
is_elevated_iv(iv_rank, threshold) == iv_rank >= threshold

(* A contract of the chain; all contracts of a chain have its one          *)
(* expiration, and the broker gives each its delta.                        *)
Contract(option_type, strike, bid, ask, delta, open_interest) ==
    [option_type |-> option_type, strike |-> strike, bid |-> bid, ask |-> ask,
     delta |-> delta, open_interest |-> open_interest, volume |-> 500]

(* OptionsChain.get_puts and get_calls: the contracts of a type, in the    *)
(* order of the chain.                                                     *)
of_type(contracts, option_type) ==
    SelectSeq(contracts, LAMBDA c : c.option_type = option_type)

(* _filter_for_liquidity, lines 216-237; mid is (bid + ask) / 2.           *)
is_liquid(c) ==
    /\ c.open_interest >= min_open_interest
    /\ c.volume >= min_volume
    /\ c.bid > 0 /\ c.ask > 0
    /\ 200 * (c.ask - c.bid) <= max_bid_ask_spread_pct * (c.bid + c.ask)

filter_for_liquidity(contracts) == SelectSeq(contracts, is_liquid)

(* list.sort(key=strike), and with sign = -1 list.sort(key=strike,         *)
(* reverse=True): stable, contracts of one strike keep their order.        *)
RECURSIVE sort_by_strike(_, _)
sort_by_strike(contracts, sign) ==
    IF contracts = << >> THEN << >>
    ELSE LET n    == Len(contracts)
             x    == contracts[n]
             done == sort_by_strike(SubSeq(contracts, 1, n - 1), sign)
             p    == Cardinality({k \in DOMAIN done :
                                     sign * done[k].strike <= sign * x.strike})
         IN  SubSeq(done, 1, p) \o <<x>> \o SubSeq(done, p + 1, Len(done))

(* _build_spread and CreditSpread (core/types.py lines 57-82): credit2 is  *)
(* twice the credit, the sum of the short quotes less that of the long.    *)
build_spread(spread_type, short_contract, long_contract) ==
    [spread_type |-> spread_type,
     short_strike |-> short_contract.strike,
     long_strike |-> long_contract.strike,
     credit2 |-> (short_contract.bid + short_contract.ask)
                   - (long_contract.bid + long_contract.ask)]

(* Mutant: a fifth of the width is credit enough.                          *)
credit_pct_ok_fifth(credit2, width) == credit2 * 50 >= width * 20

(* Lines 147-149: credit / width is not below min_credit_pct.              *)
credit_pct_ok(credit2, width) == credit2 * 50 >= width * min_credit_pct

(* The tests of the inner loop, lines 131-149 and 188-206, on a pair taken *)
(* from the sorted list; width is signed as the code computes it.          *)
pair_passes(spread_type, short_contract, long_contract) ==
    LET width  == IF spread_type = "bull_put"
                  THEN short_contract.strike - long_contract.strike
                  ELSE long_contract.strike - short_contract.strike
        spread == build_spread(spread_type, short_contract, long_contract)
    IN  /\ min_width <= width /\ width <= max_width
        /\ ~(spread.credit2 <= 0)
        /\ credit_pct_ok(spread.credit2, width)

(* Lines 126-127: the short contract's delta is in the window.             *)
delta_in_window(delta) ==
    LET a == IF delta < 0 THEN 0 - delta ELSE delta
    IN  min_delta <= a /\ a <= max_delta

(* The two loops over a sorted list: every short contract i with every     *)
(* later contract j, in loop order.                                        *)
RECURSIVE loop_pairs(_, _, _)
loop_pairs(sorted, spread_type, k) ==
    LET n == Len(sorted)
        i == ((k - 1) \div n) + 1
        j == ((k - 1) % n) + 1
    IN  IF k > n * n THEN << >>
        ELSE (IF /\ j > i
                 /\ delta_in_window(sorted[i].delta)
                 /\ pair_passes(spread_type, sorted[i], sorted[j])
              THEN <<build_spread(spread_type, sorted[i], sorted[j])>>
              ELSE << >>) \o loop_pairs(sorted, spread_type, k + 1)

(* _find_bull_put_spreads, lines 102-157.                                  *)
find_bull_put_spreads(contracts) ==
    LET puts == filter_for_liquidity(of_type(contracts, "put"))
    IN  IF Len(puts) < 2 THEN << >>
        ELSE loop_pairs(sort_by_strike(puts, 0 - 1), "bull_put", 1)

(* _find_bear_call_spreads, lines 159-214.                                 *)
find_bear_call_spreads(contracts) ==
    LET calls == filter_for_liquidity(of_type(contracts, "call"))
    IN  IF Len(calls) < 2 THEN << >>
        ELSE loop_pairs(sort_by_strike(calls, 1), "bear_call", 1)

(* screen_chain, lines 73-95, before the sort by score: dte is             *)
(* days_to_expiry of the chain's expiration.                               *)
opportunities(contracts, dte, iv_rank) ==
    IF ~is_elevated_iv(iv_rank, min_iv_rank) THEN << >>
    ELSE IF ~(min_dte <= dte /\ dte <= max_dte) THEN << >>
    ELSE find_bull_put_spreads(contracts) \o find_bear_call_spreads(contracts)

(* The chain and the IV rank handed to screen_chain.                       *)
ChainGiven(contracts, dte, iv_rank) ==
    Call("chain", <<contracts, dte, iv_rank>>, << >>, << >>)

(* screen_chain.  Lines 97-98 sort the list by a float score: ret holds    *)
(* the spreads in any order.                                               *)
ScreenChain ==
    /\ ret.op = "chain"
    /\ LET found == opportunities(ret.args[1], ret.args[2], ret.args[3])
       IN  \E order \in Permutations(DOMAIN found) :
              ret' = Call("screen_chain", ret.args, << >>,
                          [k \in DOMAIN found |-> found[order[k]]])
    /\ UNCHANGED <<now, cbKey, dailyKey, errKey, errLog, tradeVars, fill>>

(* Chains of up to MaxContracts contracts: puts and calls, two of each     *)
(* with one strike, one put that is not liquid, deltas in and out of the   *)
(* window, credits above and below a quarter of the width.                 *)
MaxContracts == 3
ContractPool ==
    {Contract("put", 10000, 200, 210, 0 - 25, 500),
     Contract("put", 9500, 50, 52, 0 - 15, 500),
     Contract("put", 10000, 150, 156, 0 - 25, 500),
     Contract("put", 9900, 195, 205, 0 - 22, 500),
     Contract("put", 8900, 20, 21, 0 - 10, 500),
     Contract("put", 9500, 50, 52, 0 - 25, 50),
     Contract("call", 11000, 200, 210, 25, 500),
     Contract("call", 11500, 20, 21, 10, 500),
     Contract("call", 11000, 150, 156, 30, 500),
     Contract("call", 11200, 230, 240, 28, 500)}
Chains == UNION {[1..n -> ContractPool] : n \in 0..MaxContracts}
DaysToExpiry == {29, 35}
IvRanks == {49, 50}

InitScreen ==
    /\ now = 0
    /\ cbKey = AbsentCb
    /\ dailyKey = AbsentDaily
    /\ errKey = AbsentErr
    /\ errLog = << >>
    /\ \E contracts \in Chains, dte \in DaysToExpiry, iv_rank \in IvRanks :
          ret = ChainGiven(contracts, dte, iv_rank)
    /\ recs = << >> /\ trades = << >> /\ orders = << >> /\ positions = {}
    /\ task = << >> /\ mon = << >> /\ hist = << >>
    /\ fill = IdleFill

(***************************************************************************)
(* SpecScreen: screen_chain on every chain.                                *)
(***************************************************************************)
NextScreen == ScreenChain

SpecScreen == InitScreen /\ [][NextScreen]_vars

(* C21: every spread screen_chain returns has its short strike above the   *)
(* long one for a bull put and below it for a bear call, a positive        *)
(* credit, a width within min_width and max_width and a credit of at least *)
(* min_credit_pct of the width; and nothing is returned for an IV rank     *)
(* below min_iv_rank.                                                      *)
C21_SpreadsValid ==
    ret.op = "screen_chain" =>
        /\ \A k \in DOMAIN ret.result :
              LET s == ret.result[k]
                  w == IF s.short_strike >= s.long_strike
                       THEN s.short_strike - s.long_strike
                       ELSE s.long_strike - s.short_strike
              IN  /\ s.spread_type = "bull_put" => s.short_strike > s.long_strike
                  /\ s.spread_type = "bear_call" => s.short_strike < s.long_strike
                  /\ s.spread_type \in {"bull_put", "bear_call"}
                  /\ s.credit2 > 0
                  /\ min_width <= w /\ w <= max_width
                  /\ s.credit2 * 100 >= 2 * w * min_credit_pct
        /\ ret.args[3] < min_iv_rank => ret.result = << >>

(* A chain with its puts out of strike order, two of them with one        *)
(* strike, gave a bull put spread.                                         *)
C21_Witness ==
    /\ ret.op = "screen_chain"
    /\ \E a, b, c \in DOMAIN ret.args[1] :
          /\ a < b
          /\ ret.args[1][a].option_type = "put" /\ ret.args[1][b].option_type = "put"
          /\ ret.args[1][a].strike < ret.args[1][b].strike
          /\ ret.args[1][c].option_type = "put" /\ c # b
          /\ ret.args[1][c].strike = ret.args[1][b].strike
    /\ \E k \in DOMAIN ret.result : ret.result[k].spread_type = "bull_put"

(* C31: when evaluate_all ran its evaluators (the flag was not set) and    *)
(* the weekly evaluator found the weekly halt, the state evaluate_all      *)
(* returned is halted and asks to close at least half of the positions.    *)
C31_WeeklyHaltCloses ==
    (/\ ret.op = "evaluate_all"
     /\ ret.ran # << >>
     /\ ret.ran[3].reason = WEEKLY_HALT) =>
        /\ ret.state.level = "halted"
        /\ ret.state.should_close_positions
        /\ ret.state.close_position_pct >= 50

(***************************************************************************)
(* SpecStats: wins, losses and new trades recorded at times that are less  *)
(* than, exactly and more than five minutes apart.                         *)
(***************************************************************************)
MaxStatsTime == 700
StatsGaps    == {100, 199}
PnlDeltas    == {0 - LossStep, 0, LossStep}

NextStats ==
    \/ \E trades_delta \in {0, 1}, pnl_delta \in PnlDeltas :
          /\ get_daily_stats(dailyKey).realized_pnl + pnl_delta <= LossStep
          /\ UpdateDailyStats(trades_delta, pnl_delta, 2, 3 * LossStep)
    \/ \E d \in StatsGaps : Tick(d, MaxStatsTime)

SpecStats == InitRisk /\ [][NextStats]_vars

NextRapid ==
    \/ UpdateDailyStats(0, 0 - LossStep, 0, 2 * LossStep)
    \/ \E d \in StatsGaps : Tick(d, MaxStatsTime)
    \/ \E cur \in {1000, 2000} : EvaluateRapidLoss(cur)

SpecRapid == InitRisk /\ [][NextRapid]_vars

(* C33: losses recorded more than five minutes before an evaluation do not *)
(* count: evaluate_rapid_loss does not return halted when the last loss    *)
(* was recorded 300 seconds or more before it is asked.                    *)
C33_OldLossesDoNotHalt ==
    (/\ ret.op = "evaluate_rapid_loss"
     /\ get_daily_stats(dailyKey).last_loss_time # NoTime
     /\ now - get_daily_stats(dailyKey).last_loss_time >= 300) =>
        ret.state.level # "halted"

(***************************************************************************)
(* update_daily_stats as the two steps it is: the await of get_daily_stats *)
(* (kv.py line 106) and the await of put_json (line 128).  Calls of other  *)
(* requests run between the two.                                           *)
(***************************************************************************)
MaxUpdaters == 3
Updaters    == 1..MaxUpdaters

IdleUpdater == [pc |-> "idle", stats |-> DefaultDailyStats]

(* Mutant: the put writes from the key's value at the time of the put.     *)
stats_to_put_current(read_stats, current_stats) == current_stats

(* Lines 106-128: the stats that are changed and put are the local copy    *)
(* that get_daily_stats returned.                                          *)
stats_to_put(read_stats, current_stats) == read_stats

UpdaterGet(u) ==
    /\ task[u].pc = "idle"
    /\ task' = [task EXCEPT ![u] = [pc |-> "read",
                                    stats |-> get_daily_stats(dailyKey)]]
    /\ UNCHANGED <<now, cbKey, dailyKey, errKey, errLog, ret,
                   recs, trades, orders, positions, mon, hist, fill>>

UpdaterPut(u, trades_delta) ==
    /\ task[u].pc = "read"
    /\ dailyKey' = [present |-> TRUE,
                    stats |-> updated_daily_stats(
                                  stats_to_put(task[u].stats,
                                               get_daily_stats(dailyKey)),
                                  trades_delta, 0, now)]
    /\ task' = [task EXCEPT ![u].pc = "done"]
    /\ ret' = Call("update_daily_stats", <<u, trades_delta>>,
                   task[u].stats.trades_count,
                   get_daily_stats(dailyKey').trades_count)
    /\ UNCHANGED <<now, cbKey, errKey, errLog,
                   recs, trades, orders, positions, mon, hist, fill>>

InitUpdaters ==
    /\ now = 0
    /\ cbKey = AbsentCb
    /\ dailyKey = AbsentDaily
    /\ errKey = AbsentErr
    /\ errLog = << >>
    /\ ret = Ret("init", RiskStateNormal, << >>)
    /\ recs = << >> /\ trades = << >> /\ orders = << >> /\ positions = {}
    /\ task = [u \in Updaters |-> IdleUpdater]
    /\ mon = << >> /\ hist = << >>
    /\ fill = IdleFill

(***************************************************************************)
(* SpecUpdaters: concurrent calls of update_daily_stats(trades_delta = 1). *)
(***************************************************************************)
NextUpdaters ==
    \/ \E u \in Updaters : UpdaterGet(u)
    \/ \E u \in Updaters : UpdaterPut(u, 1)

SpecUpdaters == InitUpdaters /\ [][NextUpdaters]_vars

Done == {u \in Updaters : task[u].pc = "done"}

(* C34: a call writes the count it read plus its delta, whatever other     *)
(* calls wrote in between; so the count after some calls have completed is *)
(* at least 1 and at most the number of completed calls, and it is less    *)
(* than that number in some interleavings (the witness).                   *)
C34_ReadModifyWrite ==
    /\ ret.op = "update_daily_stats" =>
          /\ ret.result = ret.checks + ret.args[2]
          /\ get_daily_stats(dailyKey).trades_count = ret.result
    /\ Done # {} =>
          /\ get_daily_stats(dailyKey).trades_count >= 1
          /\ get_daily_stats(dailyKey).trades_count <= Cardinality(Done)

(* Two calls with trades_delta = 1 have completed, no other has started,   *)
(* and trades_count has grown by 1 only.                                   *)
C34_Witness ==
    /\ Cardinality(Done) = 2
    /\ \A u \in Updaters \ Done : task[u].pc = "idle"
    /\ get_daily_stats(dailyKey).trades_count = 1

(* C35: when the morning scan is not running, every opening order at the   *)
(* broker is the order of a local trade: some trade carries its id.        *)
C35_PlacedOrderHasTrade ==
    task["morning"].pc = "idle" =>
        \A o \in OrderIds :
            orders[o].side = "open" =>
                \E t \in TradeIds : /\ trades[t].status # "none"
                                    /\ trades[t].broker_order_id = o


(***************************************************************************)
(* handle_close_position (discord_webhook.py, lines 240-300): the click on *)
(* the Close button of an exit alert.  The trade is looked up by id; a     *)
(* trade that exists gets a closing order placed, whatever its status, and *)
(* the handler writes nothing to the trade.                                *)
(***************************************************************************)
WebhookClose(trade_id) ==
    /\ trades[trade_id].status # "none"
    /\ HasFree(orders)
    /\ orders' = place_order(orders, "close")
    /\ hist' = [hist EXCEPT ![trade_id].closing_orders = @ + 1]
    /\ UNCHANGED <<riskVars, recs, trades, positions, task, mon, fill>>

(***************************************************************************)
(* SpecClose: the position monitors with auto-execute on, their runs free  *)
(* to overlap, and the close webhook, over tables without pending trades.  *)
(***************************************************************************)
InitClose ==
    /\ InitRecon
    /\ \A t \in TradeIds : trades[t].status # "pending_fill"

NextClose ==
    \/ \E p \in MonIds : MonCheck(p)
    \/ \E p \in MonIds : MonList(p)
    \/ \E p \in MonIds : MonReturn(p)
    \/ \E p \in MonIds : MonListOpen(p)
    \/ \E p \in MonIds : MonEvaluate(p, 1000, 1000)
    \/ \E p \in MonIds, what \in {"hold", "exit", "exit_failed", "exit_unrecorded"} :
            MonProcess(p, what, 0 - LossStep)
    \/ \E trade_id \in TradeIds : WebhookClose(trade_id)

SpecClose == InitClose /\ [][NextClose]_vars

(* C36: no trade ever has more than one closing order submitted to the     *)
(* broker for it, by the monitors' auto-exits and the close webhook        *)
(* together.                                                               *)
C36_OneClosingOrder ==
    \A t \in TradeIds : hist[t].closing_orders <= 1


(* C37: whenever monitor_order_fill returns, was_filled is true exactly    *)
(* when the order object it returns (current_order) has status filled.     *)
C37_WasFilledIffFilled ==
    fill.pc = "returned" => (fill.was_filled <=> fill.observed = "filled")


(***************************************************************************)
(* The daily key as a stored dict whose keys are not all there.            *)
(*                                                                         *)
(* _run_eod_summary, lines 185-194: the record the end-of-day job writes   *)
(* under tomorrow's date has three keys.                                   *)
(***************************************************************************)
eod_baseline(equity) ==
    [starting_equity |-> equity, trades_count |-> 0, realized_pnl |-> 0]

(* dict[key] = value.                                                      *)
setitem(d, k, v) == (k :> v) @@ d

(* KVClient.update_daily_stats, lines 106-129, on the dict that            *)
(* get_daily_stats returned: d[k] += x raises KeyError for a key the dict  *)
(* lacks, d.get(k) answers None for it and d[k] = x adds it.  The result   *)
(* is the exception, if any, and the dict handed to put_json.              *)
update_daily_stats(stats, trades_delta, pnl_delta, t) ==
    LET has(k) == k \in DOMAIN stats
        loss == 0 - pnl_delta
        s1 == setitem(setitem(stats, "trades_count",
                              stats.trades_count + trades_delta),
                      "realized_pnl", stats.realized_pnl + pnl_delta)
        last_loss == IF has("last_loss_time") THEN stats.last_loss_time ELSE NoTime
        s2 == setitem(s1, "losses_today", stats.losses_today + loss)
        s3 == setitem(s2, "rapid_loss_amount",
                      IF last_loss # NoTime /\ t - last_loss < rapid_loss_window_seconds
                      THEN stats.rapid_loss_amount + loss
                      ELSE loss)
    IN  IF ~has("trades_count") \/ ~has("realized_pnl")
        THEN [raised |-> "KeyError", stats |-> stats]
        ELSE IF pnl_delta >= 0
        THEN [raised |-> NoStr, stats |-> s1]
        ELSE IF ~has("losses_today")
        THEN [raised |-> "KeyError", stats |-> stats]
        ELSE IF last_loss # NoTime
                /\ t - last_loss < rapid_loss_window_seconds
                /\ ~has("rapid_loss_amount")
        THEN [raised |-> "KeyError", stats |-> stats]
        ELSE [raised |-> NoStr, stats |-> setitem(s3, "last_loss_time", t)]

(* _run_eod_summary, lines 185-194, and the change of date after it: the   *)
(* key of the new day holds the baseline.                                  *)
EodBaseline(equity) ==
    /\ dailyKey' = [present |-> TRUE, stats |-> eod_baseline(equity)]
    /\ ret' = Call("eod_baseline", <<equity>>, << >>, NoStr)
    /\ UNCHANGED <<now, cbKey, errKey, errLog, tradeVars, fill>>

(* One call of update_daily_stats on the key as it is stored; an exception *)
(* leaves the call before put_json.                                        *)
RecordStats(trades_delta, pnl_delta) ==
    LET before == get_daily_stats(dailyKey)
        r == update_daily_stats(before, trades_delta, pnl_delta, now)
    IN  /\ dailyKey' = IF r.raised = NoStr
                       THEN [present |-> TRUE, stats |-> r.stats]
                       ELSE dailyKey
        /\ ret' = Call("update_daily_stats", <<trades_delta, pnl_delta>>,
                       before, r.raised)
        /\ UNCHANGED <<now, cbKey, errKey, errLog, tradeVars, fill>>

(***************************************************************************)
(* SpecBaseline: days of trading, each started either with no key or with  *)
(* the baseline of the end-of-day job, with trades, wins and losses        *)
(* recorded as time passes.                                                *)
(***************************************************************************)
NextBaseline ==
    \/ \E equity \in {900, 1000} : EodBaseline(equity)
    \/ \E trades_delta \in {0, 1}, pnl_delta \in PnlDeltas :
          /\ get_daily_stats(dailyKey).trades_count + trades_delta <= 2
          /\ get_daily_stats(dailyKey).realized_pnl + pnl_delta <= LossStep
          /\ get_daily_stats(dailyKey).realized_pnl + pnl_delta >= 0 - 2 * LossStep
          /\ "losses_today" \in DOMAIN get_daily_stats(dailyKey) =>
                get_daily_stats(dailyKey).losses_today - Min2(pnl_delta, 0)
                    <= 2 * LossStep
          /\ RecordStats(trades_delta, pnl_delta)
    \/ \E d \in StatsGaps : Tick(d, MaxStatsTime)

SpecBaseline == InitRisk /\ [][NextBaseline]_vars

(* C38: a call of update_daily_stats with a negative pnl_delta completes   *)
(* on every stored value of the daily key, the end-of-day baseline         *)
(* included, and the key then holds the loss in realized_pnl, in           *)
(* losses_today and in rapid_loss_amount, with starting_equity kept.       *)
C38_LossRecordedOnEveryKey ==
    (ret.op = "update_daily_stats" /\ ret.args[2] < 0) =>
        /\ ret.result = NoStr
        /\ dailyKey.stats.realized_pnl = ret.checks.realized_pnl + ret.args[2]
        /\ dailyKey.stats.losses_today >= 0 - ret.args[2]
        /\ dailyKey.stats.rapid_loss_amount >= 0 - ret.args[2]
        /\ "starting_equity" \in DOMAIN ret.checks =>
               dailyKey.stats.starting_equity = ret.checks.starting_equity


(***************************************************************************)
(* The position monitor under a set flag.                                  *)
(*                                                                         *)
(* _run_position_monitor, lines 46-50: the flag is set, the run prints the *)
(* reason and returns before it builds a client.                           *)
(***************************************************************************)
MonHalted(p) ==
    /\ mon[p].pc = "idle"
    /\ ~is_trading_allowed(cbKey)
    /\ ret' = Call("position_monitor", <<p>>, << >>, "halted")
    /\ UNCHANGED <<now, cbKey, dailyKey, errKey, errLog, tradeVars, fill>>

(***************************************************************************)
(* SpecHalted: runs of the position monitor, one after another, with       *)
(* auto-execute on, while the broker moves the orders and the flag is      *)
(* tripped and reset from outside the run (trip and reset, or the          *)
(* evaluate_all of another task) at any moment.                            *)
(***************************************************************************)
NextHalted ==
    \/ MonCheck(1)
    \/ MonHalted(1)
    \/ MonList(1)
    \/ MonReconcile(1, TRUE)
    \/ MonReturn(1)
    \/ MonListOpen(1)
    \/ \E equity \in {900, 1000} : MonEvaluate(1, 1000, equity)
    \/ \E what \in {"hold", "exit"} : MonProcess(1, what, 0 - LossStep)
    \/ \E o \in OrderIds, to \in {"filled", "canceled"} : BrokerStep(o, to)
    \/ Trip(MANUAL)
    \/ Reset

SpecHalted == InitRecon /\ [][NextHalted]_vars

WebhookReject(rec_id) ==
    /\ recs[rec_id].status # "none"
    /\ recs' = update_recommendation_status(recs, rec_id, "rejected")
    /\ UNCHANGED <<riskVars, trades, orders, positions, task, mon, hist, fill>>

(***************************************************************************)
(* SpecReject: the morning scan sends recommendations for approval; the    *)
(* Approve and Reject buttons of each are clicked in any order, any number *)
(* of times.                                                               *)
(***************************************************************************)
NextReject ==
    \/ MorningCheck
    \/ ScanReturn("morning")
    \/ MorningEvaluate(1000, 1000, NoVix)
    \/ MorningRecommend("manual")
    \/ \E rec_id \in RecIds, fresh \in BOOLEAN :
            WebhookValidate("approve", rec_id, fresh)
    \/ WebhookCheck("approve")
    \/ WebhookSubmit("approve")
    \/ WebhookOrderFails("approve")
    \/ \E rec_id \in RecIds : WebhookReject(rec_id)

SpecReject == InitTrades /\ [][NextReject]_vars

(* C40: once a recommendation is approved or rejected, no step changes its *)
(* status again.                                                           *)
C40_StatusLeavesPendingOnce ==
    [][\A r \in RecIds :
          recs[r].status \in {"approved", "rejected"} =>
              recs'[r].status = recs[r].status]_vars

====
